---------------------------- MODULE Spec2Model ----------------------------
(***************************************************************************)
(* A model of the evaluation script scripts/eval_v1_6_timex_tagger.py of   *)
(* EstTimexCorpora: the per-document statistics of aggregate_differences   *)
(* (strict counts, the relaxed pairing of conflicting spans, the attribute *)
(* counters), calculate_results, and the evaluation driver that keeps the  *)
(* corpus and subcorpus accumulators and writes the reports.               *)
(*                                                                         *)
(* Two specifications share the operators that model the code:             *)
(*   SpecRelaxed  one document; aggregate_differences is run twice on its  *)
(*                diff layer, the first time one conflict per step;        *)
(*   Spec         the driver's loop over the documents of one corpus.      *)
(***************************************************************************)
EXTENDS Integers, Sequences, FiniteSets, TLC

VARIABLES
    \* ---- one call of aggregate_differences (SpecRelaxed)
    diff_layer,              \* timex_diff_tagger.make_layer(...) of the document
    full_span_matches,       \* find_timexes_with_full_span_match(...) of it
    conflicts,               \* what iterate_diff_conflicts yields, in order
    ci,                      \* number of conflicts the loop has consumed
    map_gold_to_auto,        \* gold key -> <<gold span, auto span>>
    map_auto_to_gold,        \* auto key -> <<gold span, auto span>>
    map_gold_to_auto_score,  \* gold key -> score of its pair (default 0)
    avail,                   \* per consumed conflict: was its auto key free
    diffs_dict,              \* the accumulator of the current call
    run,                     \* how many calls have been started
    first_run,               \* pairs and accumulator after the first call
    rpc,                     \* position inside the call
    \* ---- the evaluation driver (Spec)
    corpus_diffs_dict,
    subcorpus_diffs_dict,
    last_subcorpus,
    log,                     \* reports written by write_out_log, in order
    doc_names,               \* subcorpus name of each document processed
    sub_members,             \* documents aggregated into subcorpus_diffs_dict
    true_spans,              \* gold and system spans of the documents seen
    pc

relaxedVars == <<diff_layer, full_span_matches, conflicts, ci,
                 map_gold_to_auto, map_auto_to_gold, map_gold_to_auto_score,
                 avail, diffs_dict, run, first_run, rpc>>
driverVars == <<corpus_diffs_dict, subcorpus_diffs_dict, last_subcorpus, log,
                doc_names, sub_members, true_spans, pc>>

VARIABLES
    \* ---- a timex exported to Brat and imported again (SpecOffsets)
    content,                 \* the text: text_obj.text / the .txt file
    timex,                   \* <<start, end>> of the timex in the text
    trigger,                 \* <<tmx_start, tmx_end>> written to the .ann file
    corrected_locs,          \* what the importer makes of them
    opc

offsetVars == <<content, timex, trigger, corrected_locs, opc>>

OffsetsIdle ==
    /\ content = <<>>
    /\ timex = <<0, 0>>
    /\ trigger = <<0, 0>>
    /\ corrected_locs = <<>>
    /\ opc = "idle"

VARIABLES
    \* ---- import_brat_annotations reading one .ann file (SpecBratAnnotations)
    entity_annotations,      \* records [id, attribs], in file order
    attr_annotations,        \* records [entity, a_name, a_value]
    notes_annotations,       \* records [entity, content, type]
    rel_annotations,         \* records [arg1, rel_type, arg2, rel_id]
    line,                    \* the line read last
    printed,                 \* the messages printed so far
    lines_read,
    ai,                      \* attribute annotations merged so far
    ni,                      \* notes annotations merged so far
    apc

annVars == <<entity_annotations, attr_annotations, notes_annotations,
             rel_annotations, line, printed, lines_read, ai, ni, apc>>

AnnotationsIdle ==
    /\ entity_annotations = <<>>
    /\ attr_annotations = <<>>
    /\ notes_annotations = <<>>
    /\ rel_annotations = <<>>
    /\ line = [prefix |-> "", parses |-> FALSE]
    /\ printed = <<>>
    /\ lines_read = 0
    /\ ai = 0
    /\ ni = 0
    /\ apc = "idle"

VARIABLES
    \* ---- import_from_brat_folder adding the relations (SpecBratRelations)
    entity_id_to_loc_map,    \* entity id -> corrected_locs
    relations_layer,         \* annotations of layer 'tlinks', in order
    arguments_layer,         \* annotations of layer 'event_arguments'
    ri,                      \* relations the running loop has consumed
    fpc

relVars == <<entity_id_to_loc_map, relations_layer, arguments_layer, ri, fpc>>

RelationsIdle ==
    /\ entity_id_to_loc_map = <<>>
    /\ relations_layer = <<>>
    /\ arguments_layer = <<>>
    /\ ri = 0
    /\ fpc = "idle"

VARIABLES
    \* ---- parse_tag_attributes (SpecTags)
    tag_attrs,     \* the attributes the tag was written with: <<key, value>>
    tag_str,       \* the tag, as its characters
    quote,         \* the quotation mark of the variant that parses the tag
    pos,           \* where finditer looks for the next match
    tag_attribs,     \* key -> value
    tpc

tagVars == <<tag_attrs, tag_str, quote, pos, tag_attribs, tpc>>

TagsIdle ==
    /\ tag_attrs = <<>>
    /\ tag_str = <<>>
    /\ quote = ""
    /\ pos = 0
    /\ tag_attribs = <<>>
    /\ tpc = "idle"

bratVars == <<offsetVars, annVars, relVars>>

BratIdle == OffsetsIdle /\ AnnotationsIdle /\ RelationsIdle

VARIABLES
    \* ---- import_t3_olp_ajav_file (SpecScopes)
    t3_lines,              \* the lines of the file read so far
    li,                    \* lines read
    cur_tokens,            \* strings, each the sequence of its characters
    cur_text_len,
    nested_timexes,        \* the open TIMEX tags, innermost last
    nested_timex_starts,
    raw_timexes,
    spc,
    token_sep,
    sentence_sep,
    paragraph_sep,
    prev_was_sent_end,
    sentence_locs,
    metadata               \* one entry for every metadata block recorded

readerVars == <<token_sep, sentence_sep, paragraph_sep, prev_was_sent_end,
                sentence_locs, metadata>>

scopeVars == <<t3_lines, li, cur_tokens, cur_text_len, nested_timexes,
               nested_timex_starts, raw_timexes, spc, readerVars>>

ReaderIdle ==
    /\ token_sep = <<>>
    /\ sentence_sep = <<>>
    /\ paragraph_sep = <<>>
    /\ prev_was_sent_end = FALSE
    /\ sentence_locs = <<>>
    /\ metadata = <<>>

ScopesIdle ==
    /\ t3_lines = <<>>
    /\ li = 0
    /\ cur_tokens = <<>>
    /\ cur_text_len = 0
    /\ nested_timexes = <<>>
    /\ nested_timex_starts = <<>>
    /\ raw_timexes = <<>>
    /\ spc = "idle"
    /\ ReaderIdle

VARIABLES
    \* ---- create_new_text_obj (SpecTextObj)
    timexes_layer,     \* the annotations added, in order
    xi,                \* records of raw_timexes the loop has consumed
    xpc

textVars == <<timexes_layer, xi, xpc>>

TextIdle ==
    /\ timexes_layer = <<>>
    /\ xi = 0
    /\ xpc = "idle"

VARIABLES
    \* ---- fix_timex_start_end_locations (SpecTrim)
    clean_text,        \* the characters of the text
    parsed,            \* _start and _end of the record as they were parsed
    t_start,           \* timex['_start']
    t_end,             \* timex['_end']
    kpc

trimVars == <<clean_text, parsed, t_start, t_end, kpc>>

TrimIdle ==
    /\ clean_text = <<>>
    /\ parsed = <<0, 0>>
    /\ t_start = 0
    /\ t_end = 0
    /\ kpc = "idle"

VARIABLES
    \* ---- locations_overlap (SpecOverlap)
    timex_loc,         \* the arguments a and b
    candidate_loc,     \* the arguments x and y
    overlap,           \* the value returned
    vpc

overlapVars == <<timex_loc, candidate_loc, overlap, vpc>>

OverlapIdle ==
    /\ timex_loc = <<0, 0>>
    /\ candidate_loc = <<0, 0>>
    /\ overlap = FALSE
    /\ vpc = "idle"

utilVars == <<trimVars, overlapVars>>

UtilIdle == TrimIdle /\ OverlapIdle

tmlVars == <<tagVars, scopeVars, textVars, utilVars>>

TmlIdle == TagsIdle /\ ScopesIdle /\ TextIdle /\ UtilIdle

converterVars == <<bratVars, tmlVars>>

ConvertersIdle == BratIdle /\ TmlIdle

vars == <<relaxedVars, driverVars, converterVars>>

(***************************************************************************)
(* Bounds of the model.                                                    *)
(***************************************************************************)
\* largest number of spans (gold and system together) of a document of
\* SpecRelaxed
MaxSpans == 5
\* largest number of documents of the corpus the driver evaluates
MaxDocs == 3
\* longest text of SpecOffsets
MaxTextLen == 4
\* most lines of an .ann file of SpecBratAnnotations
MaxLines == 4
\* most relation records of SpecBratRelations
MaxRels == 2
\* most attributes of a tag of SpecTags
MaxAttrs == 3
\* most lines of a t3-olp-ajav file of SpecScopes
MaxT3Lines == 5
\* the records of SpecTextObj besides the document creation time
MaxTimexes == 3
\* the largest offset of SpecOverlap
MaxLoc == 4
\* character offsets of the text of a document of SpecRelaxed
Offsets == 0 .. 3

(***************************************************************************)
(* Annotations.  Python's None is the string "None" for the plain          *)
(* attributes; begin_point, end_point and part_of_interval hold a tagged   *)
(* value: nothing, a string (an identifier such as '??'), or an embedded   *)
(* record (OrderedDict).                                                   *)
(***************************************************************************)
None == "None"
NoValue == [kind |-> "none"]
StrValue(s) == [kind |-> "str", s |-> s]
DictValue(tid, type, value) ==
    [kind |-> "dict", tid |-> tid, type |-> type, value |-> value]

basic_eval_attributes == <<"type", "value", "mod", "quant", "freq">>
primary_attributes == <<"type", "value">>
secondary_attributes ==
    <<"mod", "quant", "freq", "begin_point", "end_point", "part_of_interval">>
link_attributes == {"begin_point", "end_point", "part_of_interval"}

\* the annotations the documents of the model draw from (as stored in the
\* corpus, before reduce_timex_layer)
RawPlain ==
    [type |-> "DATE", value |-> "v1", mod |-> None, quant |-> None,
     freq |-> None, begin_point |-> NoValue, end_point |-> NoValue,
     part_of_interval |-> NoValue]
RawLinked ==
    [type |-> "DATE", value |-> "v2", mod |-> "APPROX", quant |-> "EVERY",
     freq |-> "1D", begin_point |-> DictValue("t1", "DATE", "v1"),
     end_point |-> DictValue("t2", "DATE", "v2"),
     part_of_interval |-> DictValue("t3", "DURATION", "v3")]
RawUnresolved ==
    [type |-> "TIME", value |-> "v1", mod |-> "START", quant |-> "EACH",
     freq |-> "1W", begin_point |-> StrValue("??"), end_point |-> NoValue,
     part_of_interval |-> StrValue("t9")]
RawAnnotations == {RawPlain, RawLinked, RawUnresolved}

\* reduce_timex_layer, one attribute value
ReduceValue(attr, value) ==
    IF attr \in link_attributes
    THEN IF value.kind = "str"
         THEN NoValue
         ELSE IF value.kind = "dict"
              THEN [kind |-> "dict", type |-> value.type, value |-> value.value]
              ELSE value
    ELSE value

\* reduce_timex_layer, one annotation
ReduceAnnotation(ann) == [attr \in DOMAIN ann |-> ReduceValue(attr, ann[attr])]

\* reduce_timex_layer: a layer is a set of spans [start, end, ann] with
\* pairwise different locations
reduce_timex_layer(layer) ==
    {[start |-> s.start, end |-> s.end, ann |-> ReduceAnnotation(s.ann)] :
        s \in layer}

(***************************************************************************)
(* The collaborators of the script (EstNLTK): the layers' order, the       *)
(* DiffTagger and the iterators over its output.                           *)
(***************************************************************************)
Key(span) == <<span.start, span.end>>

\* spans of a layer are ordered by (start, end)
SpanBefore(a, b) ==
    a.start < b.start \/ (a.start = b.start /\ a.end <= b.end)

RECURSIVE SortSpans(_)
SortSpans(S) ==
    IF S = {} THEN <<>>
    ELSE LET m == CHOOSE x \in S : \A y \in S : SpanBefore(x, y)
         IN  <<m>> \o SortSpans(S \ {m})

\* one span of the diff layer for location k
DiffSpan(k, gold, auto) ==
    LET g == {s \in gold : Key(s) = k}
        a == {s \in auto : Key(s) = k}
        gs == CHOOSE s \in g : TRUE
        as == CHOOSE s \in a : TRUE
    IN  IF a = {}
        THEN [start |-> k[1], end |-> k[2], span_status |-> "missing",
              annotations |-> <<gs.ann>>]
        ELSE IF g = {}
        THEN [start |-> k[1], end |-> k[2], span_status |-> "extra",
              annotations |-> <<as.ann>>]
        ELSE IF gs.ann = as.ann
        THEN [start |-> k[1], end |-> k[2], span_status |-> "unchanged",
              annotations |-> <<gs.ann>>]
        ELSE [start |-> k[1], end |-> k[2], span_status |-> "modified",
              annotations |-> <<gs.ann, as.ann>>]

\* timex_diff_tagger.make_layer: the diff layer, in layer order
make_layer(gold, auto) ==
    SortSpans({DiffSpan(k, gold, auto) :
                  k \in {Key(s) : s \in gold \cup auto}})

CountStatus(layer, status) ==
    Cardinality({i \in DOMAIN layer : layer[i].span_status = status})

\* diff_layer.meta
Meta(layer) ==
    LET u == CountStatus(layer, "unchanged")
        m == CountStatus(layer, "modified")
        mi == CountStatus(layer, "missing")
        e == CountStatus(layer, "extra")
    IN  [unchanged_spans |-> u, modified_spans |-> m, missing_spans |-> mi,
         extra_spans |-> e, unchanged_annotations |-> u,
         missing_annotations |-> mi + m, extra_annotations |-> e + m]

\* iterate_diff_conflicts: the pairs <<missing span, extra span>> that
\* overlap, in the order of the layer (first by the earlier span of the
\* pair, then by the later one)
RECURSIVE ConflictsFrom(_, _, _)
ConflictsFrom(layer, i, j) ==
    IF i > Len(layer) THEN <<>>
    ELSE IF j > Len(layer) \/ layer[i].end <= layer[j].start
    THEN ConflictsFrom(layer, i + 1, i + 2)
    ELSE LET a == layer[i]
             b == layer[j]
             here == IF a.span_status = "missing" /\ b.span_status = "extra"
                     THEN <<(<<a, b>>)>>
                     ELSE IF a.span_status = "extra" /\ b.span_status = "missing"
                     THEN <<(<<b, a>>)>>
                     ELSE <<>>
         IN  here \o ConflictsFrom(layer, i, j + 1)

iterate_diff_conflicts(layer) == ConflictsFrom(layer, 1, 2)

\* iterate_modified
iterate_modified(layer) ==
    SelectSeq(layer, LAMBDA s : s.span_status = "modified")


\* find_timexes_with_full_span_match: the pairs <<gold span, auto span>> with
\* equal (start, end), in the order of the gold layer.  The locations of a
\* layer are pairwise different, so no auto span is met twice and the
\* function's raise is out of reach.
find_timexes_with_full_span_match(gold, auto) ==
    LET g == SortSpans({s \in gold : \E t \in auto : Key(t) = Key(s)})
    IN  [i \in DOMAIN g |->
            <<g[i], CHOOSE t \in auto : Key(t) = Key(g[i])>>]

(***************************************************************************)
(* aggregate_differences: the relaxed pairing.                             *)
(***************************************************************************)
EmptyMap == [k \in {} |-> 0]

\* map[key] of a defaultdict(int)
Lookup(map, key) == IF key \in DOMAIN map THEN map[key] ELSE 0

Put(map, key, value) ==
    [k \in (DOMAIN map) \cup {key} |-> IF k = key THEN value ELSE map[k]]

Delete(map, key) == [k \in (DOMAIN map) \ {key} |-> map[k]]

CountEqual(gold_ann, auto_ann, attrs) ==
    Cardinality({i \in DOMAIN attrs : gold_ann[attrs[i]] = auto_ann[attrs[i]]})

\* the match score of a conflict
Score(gold, auto) ==
    2 * CountEqual(gold.annotations[1], auto.annotations[1], primary_attributes)
    + CountEqual(gold.annotations[1], auto.annotations[1], secondary_attributes)

\* (mutant of Accepts: an equal score replaces the pair)
AcceptsTies(maps, gold, auto) ==
    /\ Lookup(maps.score, Key(gold)) <= Score(gold, auto)
    /\ Key(auto) \notin DOMAIN maps.a2g

\* the test that decides whether a conflict updates the records
Accepts(maps, gold, auto) ==
    /\ Lookup(maps.score, Key(gold)) < Score(gold, auto)
    /\ Key(auto) \notin DOMAIN maps.a2g

\* (mutant of Release: the old auto key is kept)
ReleaseNothing(maps, gold_key) == maps.a2g

\* "Release old auto key"
Release(maps, gold_key) ==
    IF gold_key \in DOMAIN maps.g2a /\ Len(maps.g2a[gold_key]) = 2
    THEN Delete(maps.a2g, Key(maps.g2a[gold_key][2]))
    ELSE maps.a2g

\* (mutant of FreshMaps: map_auto_to_gold outlives the call)
LeakyMaps ==
    [g2a |-> EmptyMap, a2g |-> map_auto_to_gold, score |-> EmptyMap, ok |-> TRUE]

\* the maps at the start of a call
FreshMaps == [g2a |-> EmptyMap, a2g |-> EmptyMap, score |-> EmptyMap, ok |-> TRUE]

\* one iteration of the loop over the conflicts; reading
\* map_gold_to_auto_score[gold_key] enters the key with 0 (defaultdict)
ConflictStep(maps, c) ==
    LET gold == c[1]
        auto == c[2]
        read == IF Key(gold) \in DOMAIN maps.score THEN maps.score
                ELSE Put(maps.score, Key(gold), 0)
    IN  IF ~maps.ok THEN maps
        ELSE IF Accepts(maps, gold, auto)
        THEN IF gold.span_status = "missing" /\ auto.span_status = "extra"
             THEN [g2a |-> Put(maps.g2a, Key(gold), <<gold, auto>>),
                   a2g |-> Put(Release(maps, Key(gold)), Key(auto), <<gold, auto>>),
                   score |-> Put(read, Key(gold), Score(gold, auto)),
                   ok |-> TRUE]
             ELSE [maps EXCEPT !.score = read, !.ok = FALSE]
        ELSE [maps EXCEPT !.score = read]

\* the whole loop, from conflict i on
RECURSIVE RelaxedPass(_, _, _)
RelaxedPass(maps, cs, i) ==
    IF i > Len(cs) THEN maps
    ELSE RelaxedPass(ConflictStep(maps, cs[i]), cs, i + 1)

(***************************************************************************)
(* aggregate_differences: the accumulator.                                 *)
(***************************************************************************)
AttrSet == {basic_eval_attributes[i] : i \in DOMAIN basic_eval_attributes}
ZeroAttrs == [a \in AttrSet |-> 0]

\* defaultdict(int)
ZeroDict ==
    [gold_spans |-> 0, auto_spans |-> 0, unchanged_spans |-> 0,
     modified_spans |-> 0, missing_spans |-> 0, extra_spans |-> 0,
     documents |-> 0, missing_spans_lenient |-> 0, extra_spans_lenient |-> 0,
     gold_spans_lenient |-> 0, auto_spans_lenient |-> 0,
     total_gold_annotations |-> 0, total_auto_annotations |-> 0,
     matching_ |-> ZeroAttrs, total_ |-> ZeroAttrs,
     total_relevant_ |-> ZeroAttrs, total_retrieved_ |-> ZeroAttrs,
     total_pr_matching_ |-> ZeroAttrs]

\* "Strict alignment": the counters added before the relaxed loop
AccumulateStrict(d, meta) ==
    [d EXCEPT
        !.gold_spans = @ + meta.unchanged_spans + meta.modified_spans
                         + meta.missing_spans,
        !.auto_spans = @ + meta.unchanged_spans + meta.modified_spans
                         + meta.extra_spans,
        !.unchanged_spans = @ + meta.unchanged_spans,
        !.modified_spans = @ + meta.modified_spans,
        !.missing_spans = @ + meta.missing_spans,
        !.extra_spans = @ + meta.extra_spans,
        !.documents = @ + 1]

\* (mutant of LenientCount: the keys of the score map are counted, which
\* holds every gold span of a conflict)
LenientCountBySeen(count, maps) == count - Cardinality(DOMAIN maps.score)

\* missing_spans -= len(map_gold_to_auto.keys()), and the same for extra
LenientCount(count, maps) == count - Cardinality(DOMAIN maps.g2a)

\* the assertions after the loop
RelaxedAssertions(meta, maps) ==
    /\ maps.ok
    /\ Cardinality(DOMAIN maps.g2a) = Cardinality(DOMAIN maps.a2g)
    /\ LenientCount(meta.missing_spans, maps) >= 0
    /\ LenientCount(meta.extra_spans, maps) >= 0

\* (mutant of AccumulateLenient: the lenient counts are taken from the
\* accumulated strict counts)
AccumulateLenientFromTotals(d, meta, maps) ==
    [d EXCEPT
        !.missing_spans_lenient = LenientCount(d.missing_spans, maps),
        !.extra_spans_lenient = LenientCount(d.extra_spans, maps),
        !.gold_spans_lenient = d.unchanged_spans + d.modified_spans
                               + LenientCount(d.missing_spans, maps),
        !.auto_spans_lenient = d.unchanged_spans + d.modified_spans
                               + LenientCount(d.extra_spans, maps)]

\* the counters of the relaxed alignment
AccumulateLenient(d, meta, maps) ==
    LET missing_spans == LenientCount(meta.missing_spans, maps)
        extra_spans == LenientCount(meta.extra_spans, maps)
    IN  [d EXCEPT
            !.missing_spans_lenient = @ + missing_spans,
            !.extra_spans_lenient = @ + extra_spans,
            !.gold_spans_lenient = @ + meta.unchanged_spans
                                     + meta.modified_spans + missing_spans,
            !.auto_spans_lenient = @ + meta.unchanged_spans
                                     + meta.modified_spans + extra_spans]

\* modified spans whose annotations agree on attr
AgreeingModified(layer, attr) ==
    LET mod == iterate_modified(layer)
    IN  Cardinality({i \in DOMAIN mod :
            Cardinality({mod[i].annotations[j][attr] :
                            j \in DOMAIN mod[i].annotations}) = 1})

\* (mutant of AccumulateAccuracy: a modified span whose annotations agree on
\* the attribute is left out of the total)
AccumulateAccuracyDisagreeingTotals(d, layer, meta) ==
    [d EXCEPT
        !.total_gold_annotations =
            @ + meta.unchanged_annotations + meta.missing_annotations,
        !.total_auto_annotations =
            @ + meta.unchanged_annotations + meta.extra_annotations,
        !.matching_ = [a \in AttrSet |->
            @[a] + meta.unchanged_annotations + AgreeingModified(layer, a)],
        !.total_ = [a \in AttrSet |->
            @[a] + meta.unchanged_annotations
                 + (Len(iterate_modified(layer)) - AgreeingModified(layer, a))]]

\* "2) TIMEX attributes": annotation totals and the accuracy counters
AccumulateAccuracy(d, layer, meta) ==
    [d EXCEPT
        !.total_gold_annotations =
            @ + meta.unchanged_annotations + meta.missing_annotations,
        !.total_auto_annotations =
            @ + meta.unchanged_annotations + meta.extra_annotations,
        !.matching_ = [a \in AttrSet |->
            @[a] + meta.unchanged_annotations + AgreeingModified(layer, a)],
        !.total_ = [a \in AttrSet |->
            @[a] + meta.unchanged_annotations + Len(iterate_modified(layer))]]

\* how many of the matched pairs satisfy P (each pair counted once: the
\* partial pairs are keyed by their gold span)
CountPairs(matches, maps, P(_, _)) ==
    Cardinality({i \in DOMAIN matches :
                    P(matches[i][1].ann, matches[i][2].ann)})
    + Cardinality({k \in DOMAIN maps.g2a :
                    P(maps.g2a[k][1].annotations[1],
                      maps.g2a[k][2].annotations[1])})

\* (mutant of AccumulatePR: the gold spans that met a conflict count as
\* relevant whether they are paired or not)
AccumulatePRAllGold(d, matches, maps) ==
    [d EXCEPT
        !.total_relevant_ = [a \in AttrSet |->
            @[a] + CountPairs(matches, maps, LAMBDA g, s : g[a] # None)
                 + Cardinality({k \in DOMAIN maps.score :
                                   k \notin DOMAIN maps.g2a})],
        !.total_retrieved_ = [a \in AttrSet |->
            @[a] + CountPairs(matches, maps, LAMBDA g, s : s[a] # None)],
        !.total_pr_matching_ = [a \in AttrSet |->
            @[a] + CountPairs(matches, maps,
                      LAMBDA g, s : g[a] # None /\ s[a] # None /\ g[a] = s[a])]]

\* "Collect statistics for precision and recall"
AccumulatePR(d, matches, maps) ==
    [d EXCEPT
        !.total_relevant_ = [a \in AttrSet |->
            @[a] + CountPairs(matches, maps, LAMBDA g, s : g[a] # None)],
        !.total_retrieved_ = [a \in AttrSet |->
            @[a] + CountPairs(matches, maps, LAMBDA g, s : s[a] # None)],
        !.total_pr_matching_ = [a \in AttrSet |->
            @[a] + CountPairs(matches, maps,
                      LAMBDA g, s : g[a] # None /\ s[a] # None /\ g[a] = s[a])]]

\* the assertions of the loop over the full matches
FullMatchAssertions(matches, maps) ==
    \A i \in DOMAIN matches :
        /\ Key(matches[i][1]) \notin DOMAIN maps.g2a
        /\ Key(matches[i][2]) \notin DOMAIN maps.a2g

\* everything after the relaxed loop
AccumulateRest(d, layer, matches, maps) ==
    AccumulatePR(
        AccumulateAccuracy(AccumulateLenient(d, Meta(layer), maps),
                           layer, Meta(layer)),
        matches, maps)

\* aggregate_differences(diff_layer, diffs_dict, full_span_matches): the
\* updated accumulator, or ok = FALSE where an assertion fails
aggregate_differences(layer, d, matches) ==
    LET maps == RelaxedPass(FreshMaps, iterate_diff_conflicts(layer), 1)
    IN  IF RelaxedAssertions(Meta(layer), maps)
           /\ FullMatchAssertions(matches, maps)
        THEN [ok |-> TRUE,
              dict |-> AccumulateRest(AccumulateStrict(d, Meta(layer)),
                                      layer, matches, maps)]
        ELSE [ok |-> FALSE, dict |-> d]

(***************************************************************************)
(* The documents of the model.                                             *)
(***************************************************************************)
Locations(offsets) == {l \in offsets \X offsets : l[1] < l[2]}

\* what a document holds at one location: nothing, a gold span or a system
\* span
OneLayerSlots ==
    {[gold |-> <<>>, auto |-> <<>>]}
    \cup {[gold |-> <<a>>, auto |-> <<>>] : a \in RawAnnotations}
    \cup {[gold |-> <<>>, auto |-> <<a>>] : a \in RawAnnotations}

SpanCount(f) ==
    Cardinality({l \in DOMAIN f : f[l].gold # <<>> \/ f[l].auto # <<>>})

\* the text object with its layers 'gold_timexes' and 'timexes'
Document(f) ==
    [gold |-> {[start |-> l[1], end |-> l[2], ann |-> f[l].gold[1]] :
                  l \in {k \in DOMAIN f : f[k].gold # <<>>}},
     auto |-> {[start |-> l[1], end |-> l[2], ann |-> f[l].auto[1]] :
                  l \in {k \in DOMAIN f : f[k].auto # <<>>}}]

\* the evaluated document: layers reduced, differences found
DiffOf(d) == make_layer(reduce_timex_layer(d.gold), reduce_timex_layer(d.auto))
MatchesOf(d) ==
    find_timexes_with_full_span_match(reduce_timex_layer(d.gold),
                                      reduce_timex_layer(d.auto))

(***************************************************************************)
(* SpecRelaxed: aggregate_differences, called twice on one diff layer with *)
(* one accumulator.                                                        *)
(***************************************************************************)
Maps == [g2a |-> map_gold_to_auto, a2g |-> map_auto_to_gold,
         score |-> map_gold_to_auto_score, ok |-> TRUE]

NoRun == [pairs |-> {}, dict |-> ZeroDict]

DriverIdle ==
    /\ corpus_diffs_dict = ZeroDict
    /\ subcorpus_diffs_dict = ZeroDict
    /\ last_subcorpus = None
    /\ log = <<>>
    /\ doc_names = <<>>
    /\ sub_members = {}
    /\ true_spans = [gold |-> 0, auto |-> 0]
    /\ pc = "idle"

InitRelaxed ==
    /\ \E f \in [Locations(Offsets) -> OneLayerSlots] :
          /\ SpanCount(f) <= MaxSpans
          /\ diff_layer = DiffOf(Document(f))
          /\ full_span_matches = MatchesOf(Document(f))
    /\ conflicts = <<>>
    /\ ci = 0
    /\ map_gold_to_auto = EmptyMap
    /\ map_auto_to_gold = EmptyMap
    /\ map_gold_to_auto_score = EmptyMap
    /\ avail = <<>>
    /\ diffs_dict = ZeroDict
    /\ run = 0
    /\ first_run = NoRun
    /\ rpc = "call"
    /\ DriverIdle
    /\ ConvertersIdle

\* entry of aggregate_differences up to the relaxed loop
Call ==
    /\ rpc = "call"
    /\ diffs_dict' = AccumulateStrict(diffs_dict, Meta(diff_layer))
    /\ map_gold_to_auto' = FreshMaps.g2a
    /\ map_auto_to_gold' = FreshMaps.a2g
    /\ map_gold_to_auto_score' = FreshMaps.score
    /\ conflicts' = iterate_diff_conflicts(diff_layer)
    /\ ci' = 0
    /\ avail' = <<>>
    /\ run' = run + 1
    /\ rpc' = "loop"
    /\ UNCHANGED <<diff_layer, full_span_matches, first_run>>
    /\ UNCHANGED <<driverVars, converterVars>>

\* one iteration of the relaxed loop
ConflictLoop ==
    /\ rpc = "loop"
    /\ ci < Len(conflicts)
    /\ \E next \in {ConflictStep(Maps, conflicts[ci + 1])} :
           /\ map_gold_to_auto' = next.g2a
           /\ map_auto_to_gold' = next.a2g
           /\ map_gold_to_auto_score' = next.score
           /\ rpc' = IF next.ok THEN "loop" ELSE "failed"
    /\ avail' = Append(avail,
                       Key(conflicts[ci + 1][2]) \notin DOMAIN map_auto_to_gold)
    /\ ci' = ci + 1
    /\ UNCHANGED <<diff_layer, full_span_matches, conflicts, diffs_dict,
                   run, first_run>>
    /\ UNCHANGED <<driverVars, converterVars>>

Pairs == {map_gold_to_auto[k] : k \in DOMAIN map_gold_to_auto}

\* from the end of the loop to the return
Return ==
    /\ rpc = "loop"
    /\ ci = Len(conflicts)
    /\ IF RelaxedAssertions(Meta(diff_layer), Maps)
          /\ FullMatchAssertions(full_span_matches, Maps)
       THEN /\ diffs_dict' = AccumulateRest(diffs_dict, diff_layer,
                                            full_span_matches, Maps)
            /\ first_run' = [pairs |-> Pairs, dict |-> diffs_dict']
            /\ rpc' = "returned"
       ELSE /\ rpc' = "failed"
            /\ UNCHANGED <<diffs_dict, first_run>>
    /\ UNCHANGED <<diff_layer, full_span_matches, conflicts, ci,
                   map_gold_to_auto, map_auto_to_gold, map_gold_to_auto_score,
                   avail, run>>
    /\ UNCHANGED <<driverVars, converterVars>>

\* the caller calls aggregate_differences again with the same diff layer and
\* the same accumulator; the call runs to its end
CallAgain ==
    /\ rpc = "returned"
    /\ run = 1
    /\ \E maps \in {RelaxedPass(FreshMaps, iterate_diff_conflicts(diff_layer), 1)},
          r \in {aggregate_differences(diff_layer, diffs_dict, full_span_matches)} :
           /\ map_gold_to_auto' = maps.g2a
           /\ map_auto_to_gold' = maps.a2g
           /\ map_gold_to_auto_score' = maps.score
           /\ diffs_dict' = r.dict
           /\ rpc' = IF r.ok THEN "returned" ELSE "failed"
    /\ run' = 2
    /\ UNCHANGED <<diff_layer, full_span_matches, conflicts, ci, avail,
                   first_run>>
    /\ UNCHANGED <<driverVars, converterVars>>

NextRelaxed == Call \/ ConflictLoop \/ Return \/ CallAgain

SpecRelaxed == InitRelaxed /\ [][NextRelaxed]_vars

(***************************************************************************)
(* SpecAttributes: one call of aggregate_differences on a document whose   *)
(* layers may hold spans at the same location.                             *)
(***************************************************************************)
AttrLocations == Locations(0 .. 2) \cup {<<2, 3>>}

\* what a document holds at one location: a gold span or none, and a system
\* span or none
AnySlots ==
    {[gold |-> g, auto |-> a] :
        g \in {<<>>} \cup {<<x>> : x \in RawAnnotations},
        a \in {<<>>} \cup {<<x>> : x \in RawAnnotations}}

InitAttributes ==
    /\ \E f \in [AttrLocations -> AnySlots] :
          /\ diff_layer = DiffOf(Document(f))
          /\ full_span_matches = MatchesOf(Document(f))
    /\ conflicts = <<>>
    /\ ci = 0
    /\ map_gold_to_auto = EmptyMap
    /\ map_auto_to_gold = EmptyMap
    /\ map_gold_to_auto_score = EmptyMap
    /\ avail = <<>>
    /\ diffs_dict = ZeroDict
    /\ run = 0
    /\ first_run = NoRun
    /\ rpc = "call"
    /\ DriverIdle
    /\ ConvertersIdle

NextAttributes == Call \/ ConflictLoop \/ Return

SpecAttributes == InitAttributes /\ [][NextAttributes]_vars

(***************************************************************************)
(* calculate_results.  A quotient of two counts is kept as the pair        *)
(* <<numerator, denominator>>; the report shows it with three decimals.    *)
(***************************************************************************)
RZero == <<0, 1>>

\* n / d if d > 0 else 0
Ratio(n, d) == IF d > 0 THEN <<n, d>> ELSE RZero

REq(x, y) == x[1] * y[2] = y[1] * x[2]

\* 2*(rec*prec) / (rec+prec) if rec+prec > 0 else 0.0
F1(rec, prec) ==
    LET sum == <<rec[1] * prec[2] + prec[1] * rec[2], rec[2] * prec[2]>>
        twice == <<2 * rec[1] * prec[1], rec[2] * prec[2]>>
    IN  IF sum[1] > 0 THEN <<twice[1] * sum[2], twice[2] * sum[1]>> ELSE RZero

\* '{:.3f}'.format(x), in thousandths (round half to even)
Format3(x) ==
    LET q == (1000 * x[1]) \div x[2]
        r == (1000 * x[1]) % x[2]
    IN  IF 2 * r > x[2] \/ (2 * r = x[2] /\ q % 2 = 1) THEN q + 1 ELSE q

Metrics(rec, prec) == [rec |-> rec, prec |-> prec, f1 |-> F1(rec, prec)]

\* "Relaxed:"
RelaxedExtent(d) ==
    Metrics(Ratio(d.unchanged_spans + d.modified_spans, d.gold_spans_lenient),
            Ratio(d.unchanged_spans + d.modified_spans, d.auto_spans_lenient))

\* (mutant of StrictExtent: the two denominators exchanged)
StrictExtentSwapped(d) ==
    Metrics(Ratio(d.unchanged_spans + d.modified_spans, d.auto_spans),
            Ratio(d.unchanged_spans + d.modified_spans, d.gold_spans))

\* "Strict:"
StrictExtent(d) ==
    Metrics(Ratio(d.unchanged_spans + d.modified_spans, d.gold_spans),
            Ratio(d.unchanged_spans + d.modified_spans, d.auto_spans))

\* "Precision and recall" of one attribute
AttrMetrics(d, attr) ==
    Metrics(Ratio(d.total_pr_matching_[attr], d.total_relevant_[attr]),
            Ratio(d.total_pr_matching_[attr], d.total_retrieved_[attr]))

\* "Accuracy" of one attribute: matching/total if total > 0 else 0.0
AttrAccuracy(d, attr) == Ratio(d.matching_[attr], d.total_[attr])

\* the values calculate_results computes (report_attr_accuracy is False at
\* every call of the driver)
calculate_results(d) ==
    [documents |-> IF d.documents > 1 THEN <<d.documents>> ELSE <<>>,
     auto_annotations |-> d.total_auto_annotations,
     gold_annotations |-> d.total_gold_annotations,
     relaxed |-> RelaxedExtent(d),
     strict |-> StrictExtent(d),
     attrs |-> [a \in AttrSet |-> AttrMetrics(d, a)]]

Shown(m) == <<Format3(m.rec), Format3(m.prec), Format3(m.f1)>>

\* the lines of the report, as written to the log
ReportLines(r) ==
    [documents |-> r.documents,
     auto_annotations |-> r.auto_annotations,
     gold_annotations |-> r.gold_annotations,
     relaxed |-> Shown(r.relaxed),
     strict |-> Shown(r.strict),
     attrs |-> [a \in AttrSet |-> Shown(r.attrs[a])]]

(***************************************************************************)
(* The evaluation driver: the loop over the documents of one corpus.       *)
(***************************************************************************)
\* text_obj.meta['_subcorpus'] of a document, None where it has none
SubcorpusNames == {None, "A", "B"}

\* "if subcorpus:"
Truthy(subcorpus) == subcorpus # None /\ subcorpus # ""

\* the documents of the corpus: at most one gold and one system timex, the
\* system timex equal to the gold one, differing in attributes, or
\* overlapping it
DriverGoldLayers ==
    {{}} \cup {{[start |-> 0, end |-> 2, ann |-> RawPlain]}}
DriverAutoLayers ==
    {{},
     {[start |-> 0, end |-> 2, ann |-> RawPlain]},
     {[start |-> 0, end |-> 2, ann |-> RawUnresolved]},
     {[start |-> 1, end |-> 2, ann |-> RawPlain]}}

\* one report of the log; members and counts record which documents it
\* covers and the accumulator it was computed from
Report(kind, title, members, d) ==
    [kind |-> kind, title |-> title, members |-> members, counts |-> d,
     results |-> ReportLines(calculate_results(d))]

RelaxedIdle ==
    /\ diff_layer = <<>>
    /\ full_span_matches = <<>>
    /\ conflicts = <<>>
    /\ ci = 0
    /\ map_gold_to_auto = EmptyMap
    /\ map_auto_to_gold = EmptyMap
    /\ map_gold_to_auto_score = EmptyMap
    /\ avail = <<>>
    /\ diffs_dict = ZeroDict
    /\ run = 0
    /\ first_run = NoRun
    /\ rpc = "idle"

Init ==
    /\ corpus_diffs_dict = ZeroDict
    /\ subcorpus_diffs_dict = ZeroDict
    /\ last_subcorpus = None
    /\ log = <<>>
    /\ doc_names = <<>>
    /\ sub_members = {}
    /\ true_spans = [gold |-> 0, auto |-> 0]
    /\ pc = "docs"
    /\ RelaxedIdle
    /\ ConvertersIdle

\* the subcorpus statistics are reported and started anew when the
\* subcorpus changes
SwitchesSubcorpus(subcorpus) ==
    Truthy(subcorpus) /\ last_subcorpus # None /\ last_subcorpus # subcorpus

\* one pass of "for (fname, fpath) in test_docs"
ProcessDocument(subcorpus, gold, auto) ==
    /\ pc = "docs"
    /\ Len(doc_names) < MaxDocs
    /\ \E layer \in {make_layer(reduce_timex_layer(gold), reduce_timex_layer(auto))},
          matches \in {find_timexes_with_full_span_match(
                          reduce_timex_layer(gold), reduce_timex_layer(auto))} :
       \E c \in {aggregate_differences(layer, corpus_diffs_dict, matches)},
          sub \in {aggregate_differences(layer,
                      IF SwitchesSubcorpus(subcorpus) THEN ZeroDict
                      ELSE subcorpus_diffs_dict, matches)},
          d \in {aggregate_differences(layer, ZeroDict, matches)} :
          LET n == Len(doc_names) + 1
              sub_report == IF SwitchesSubcorpus(subcorpus)
                            THEN <<Report("subcorpus", last_subcorpus,
                                          sub_members, subcorpus_diffs_dict)>>
                            ELSE <<>>
          IN  IF ~c.ok
              THEN /\ pc' = "aborted"
                   /\ UNCHANGED <<corpus_diffs_dict, subcorpus_diffs_dict,
                                  last_subcorpus, log, doc_names, sub_members,
                                  true_spans>>
              ELSE /\ corpus_diffs_dict' = c.dict
                   /\ subcorpus_diffs_dict' =
                         IF Truthy(subcorpus) THEN sub.dict
                         ELSE subcorpus_diffs_dict
                   /\ sub_members' =
                         IF ~Truthy(subcorpus) THEN sub_members
                         ELSE IF SwitchesSubcorpus(subcorpus) THEN {n}
                         ELSE sub_members \cup {n}
                   /\ log' = log \o sub_report
                                 \o <<Report("document", "", {n}, d.dict)>>
                   /\ doc_names' = Append(doc_names, subcorpus)
                   /\ true_spans' = [gold |-> true_spans.gold + Cardinality(gold),
                                     auto |-> true_spans.auto + Cardinality(auto)]
                   /\ last_subcorpus' = subcorpus
                   /\ pc' = "docs"
    /\ UNCHANGED <<relaxedVars, converterVars>>

\* after the loop: "last subcorpus stats" and the corpus report
FinishCorpus ==
    /\ pc = "docs"
    /\ Len(doc_names) >= 1
    /\ log' = log
              \o (IF last_subcorpus # None
                  THEN <<Report("subcorpus", last_subcorpus, sub_members,
                                subcorpus_diffs_dict)>>
                  ELSE <<>>)
              \o <<Report("corpus", "", 1 .. Len(doc_names), corpus_diffs_dict)>>
    /\ pc' = "done"
    /\ UNCHANGED <<corpus_diffs_dict, subcorpus_diffs_dict, last_subcorpus,
                   doc_names, sub_members, true_spans>>
    /\ UNCHANGED <<relaxedVars, converterVars>>

Next ==
    \/ \E subcorpus \in SubcorpusNames, gold \in DriverGoldLayers,
          auto \in DriverAutoLayers : ProcessDocument(subcorpus, gold, auto)
    \/ FinishCorpus

Spec == Init /\ [][Next]_vars

(***************************************************************************)
(* SpecOffsets: convert_ERY2012_json_to_brat.py writes the offsets of a    *)
(* timex to the .ann file, convert_BRAT_to_estnltk_json.py reads them.     *)
(* A text is a sequence of characters; Python's text[i] is content[i + 1]. *)
(***************************************************************************)
NL == "\n"
Chars == {"a", NL}

RECURSIVE CountNL(_)
\* text.count('\n')
CountNL(text) ==
    IF text = <<>> THEN 0
    ELSE (IF Head(text) = NL THEN 1 ELSE 0) + CountNL(Tail(text))

\* text[a:b] for 0 <= a and b of any size
Slice(text, a, b) ==
    SubSeq(text, a + 1, IF b < Len(text) THEN b ELSE Len(text))

\* create_annotations_file_content with correct_indexes: the offsets of the
\* trigger line
ShiftedOffsets(text, tmx_start, tmx_end) ==
    <<tmx_start + CountNL(Slice(text, 0, tmx_start)),
      tmx_end + CountNL(Slice(text, 0, tmx_end))>>

\* the while loop of _calculate_corrected_start_and_delta; text[i] beyond
\* the end of the text raises IndexError
RECURSIVE CorrectionLoop(_, _, _, _)
CorrectionLoop(text, i, corrected_start, delta) ==
    IF ~(i < corrected_start)
    THEN [ok |-> TRUE, corrected_start |-> corrected_start, delta |-> delta]
    ELSE IF i + 1 > Len(text)
    THEN [ok |-> FALSE, corrected_start |-> corrected_start, delta |-> delta]
    ELSE IF text[i + 1] = NL
    THEN CorrectionLoop(text, i + 1, corrected_start - 1, delta - 1)
    ELSE CorrectionLoop(text, i + 1, corrected_start, delta)

\* _calculate_corrected_start_and_delta(text, start)
_calculate_corrected_start_and_delta(text, start) ==
    CorrectionLoop(text, 0, start, 0)

InitOffsets ==
    /\ content \in UNION {[1 .. n -> Chars] : n \in 1 .. MaxTextLen}
    /\ timex \in {l \in (0 .. Len(content)) \X (0 .. Len(content)) :
                     l[1] < l[2]}
    /\ trigger = <<0, 0>>
    /\ corrected_locs = <<>>
    /\ opc = "export"
    /\ RelaxedIdle
    /\ DriverIdle
    /\ AnnotationsIdle
    /\ RelationsIdle
    /\ TmlIdle

\* create_annotations_file_content: the trigger line of the timex
ExportTimex ==
    /\ opc = "export"
    /\ trigger' = ShiftedOffsets(content, timex[1], timex[2])
    /\ opc' = "import"
    /\ UNCHANGED <<content, timex, corrected_locs>>
    /\ UNCHANGED <<relaxedVars, driverVars, annVars, relVars, tmlVars>>

\* import_from_brat_folder, the entity with one location: corrected start,
\* end + delta, and the assertion that the snippet is the entity's text
ImportEntity ==
    /\ opc = "import"
    /\ \E c \in {_calculate_corrected_start_and_delta(content, trigger[1])} :
          IF c.ok /\ Slice(content, c.corrected_start, trigger[2] + c.delta)
                       = Slice(content, timex[1], timex[2])
          THEN /\ corrected_locs' = <<(<<c.corrected_start, trigger[2] + c.delta>>)>>
               /\ opc' = "imported"
          ELSE /\ corrected_locs' = <<>>
               /\ opc' = "failed"
    /\ UNCHANGED <<content, timex, trigger>>
    /\ UNCHANGED <<relaxedVars, driverVars, annVars, relVars, tmlVars>>

NextOffsets == ExportTimex \/ ImportEntity

SpecOffsets == InitOffsets /\ [][NextOffsets]_vars

(***************************************************************************)
(* SpecBratAnnotations: import_brat_annotations.  A line of the .ann file  *)
(* is kept as what the patterns of the script see in it: the line-prefix   *)
(* pattern it matches ("T", "A", "#", "R" or none), whether the record     *)
(* pattern of that kind matches as well, and the groups it captures.       *)
(***************************************************************************)
EntityIds == {"T1", "T2"}
\* an identifier no entity line has
UnknownId == "T9"

EntityLines ==
    {[prefix |-> "T", parses |-> TRUE, id |-> e] : e \in EntityIds}
AttribLines ==
    {[prefix |-> "A", parses |-> TRUE, entity |-> e, a_name |-> "type",
      a_value |-> v] : e \in {"T1", UnknownId}, v \in {"DATE", "TIME"}}
NotesLines ==
    {[prefix |-> "#", parses |-> TRUE, entity |-> e, type |-> "TIMEX_ATTRIBS",
      content |-> [type |-> "DATE", tid |-> "t1"]] : e \in {"T1", UnknownId}}
    \cup {[prefix |-> "#", parses |-> TRUE, entity |-> e, type |-> "COMMENT",
           content |-> [note |-> "note"]] : e \in {"T1", UnknownId}}
RelationLines ==
    {[prefix |-> "R", parses |-> TRUE, arg1 |-> "T1", rel_type |-> "BEFORE",
      arg2 |-> "T2", rel_id |-> "R1"]}
\* lines that match a line-prefix pattern and not the record pattern behind it
BrokenLines == {[prefix |-> x, parses |-> FALSE] : x \in {"T", "A", "#", "R"}}
\* lines that match no line-prefix pattern
OtherLines == {[prefix |-> "", parses |-> FALSE]}

AnnLines ==
    EntityLines \cup AttribLines \cup NotesLines \cup RelationLines
    \cup BrokenLines \cup OtherLines

\* _parse_entity_annotation (simple entity)
NewEntity(l) ==
    [id |-> l.id, attribs |-> [text |-> "x", _is_multiword |-> FALSE]]

\* (mutant of FindEntity: an unknown identifier finds the first entity)
FindEntityOrFirst(entities, id) ==
    IF \E i \in DOMAIN entities : entities[i].id = id
    THEN CHOOSE i \in DOMAIN entities :
            /\ entities[i].id = id
            /\ \A j \in DOMAIN entities : entities[j].id = id => i <= j
    ELSE IF entities # <<>> THEN 1 ELSE 0

\* index of the first entity annotation with the identifier, 0 if none
\* ("for ... in entity_annotations: if entity_id1 == entity_id2: ... break")
FindEntity(entities, id) ==
    IF \E i \in DOMAIN entities : entities[i].id = id
    THEN CHOOSE i \in DOMAIN entities :
            /\ entities[i].id = id
            /\ \A j \in DOMAIN entities : entities[j].id = id => i <= j
    ELSE 0

\* (mutant of MergeAttribs: the new value wins)
MergeAttribsOverwrite(entity_attribs, new_attribs) ==
    [ok |-> TRUE,
     attribs |-> [k \in DOMAIN entity_attribs \cup DOMAIN new_attribs |->
                     IF k \in DOMAIN new_attribs THEN new_attribs[k]
                     ELSE entity_attribs[k]]]

\* a dict merged into entity_attribs: the result, or ok = FALSE where a name
\* is there with another value (ValueError)
MergeAttribs(entity_attribs, new_attribs) ==
    IF \E k \in DOMAIN new_attribs :
          k \in DOMAIN entity_attribs /\ entity_attribs[k] # new_attribs[k]
    THEN [ok |-> FALSE, attribs |-> entity_attribs]
    ELSE [ok |-> TRUE,
          attribs |-> [k \in DOMAIN entity_attribs \cup DOMAIN new_attribs |->
                          IF k \in DOMAIN new_attribs THEN new_attribs[k]
                          ELSE entity_attribs[k]]]

InitBratAnnotations ==
    /\ entity_annotations = <<>>
    /\ attr_annotations = <<>>
    /\ notes_annotations = <<>>
    /\ rel_annotations = <<>>
    /\ line = [prefix |-> "", parses |-> FALSE]
    /\ printed = <<>>
    /\ lines_read = 0
    /\ ai = 0
    /\ ni = 0
    /\ apc = "read"
    /\ RelaxedIdle
    /\ DriverIdle
    /\ OffsetsIdle
    /\ RelationsIdle
    /\ TmlIdle

\* (mutant of MatchesPrefixPattern: every line is handed to a parser)
MatchesAlways(l) == TRUE

\* the line matches one of entity_annotation_pat, attrib_annotation_pat,
\* notes_annotation_pat, relation_annotation_pat
MatchesPrefixPattern(l) == l.prefix # ""

\* "1) collect annotations": one non-empty line of the file
ReadLine(next_line) ==
    /\ apc = "read"
    /\ lines_read < MaxLines
    /\ lines_read' = lines_read + 1
    /\ line' = next_line
    /\ IF ~MatchesPrefixPattern(next_line) THEN
          /\ printed' = Append(printed, "Cannot parse annotation")
          /\ UNCHANGED <<entity_annotations, attr_annotations,
                         notes_annotations, rel_annotations, apc>>
       ELSE IF ~next_line.parses THEN
          /\ apc' = "failed"
          /\ UNCHANGED <<entity_annotations, attr_annotations,
                         notes_annotations, rel_annotations, printed>>
       ELSE
          /\ entity_annotations' =
                IF next_line.prefix = "T"
                THEN Append(entity_annotations, NewEntity(next_line))
                ELSE entity_annotations
          /\ attr_annotations' =
                IF next_line.prefix = "A"
                THEN Append(attr_annotations,
                            [entity |-> next_line.entity,
                             a_name |-> next_line.a_name,
                             a_value |-> next_line.a_value])
                ELSE attr_annotations
          /\ notes_annotations' =
                IF next_line.prefix = "#"
                THEN Append(notes_annotations,
                            [entity |-> next_line.entity,
                             content |-> next_line.content,
                             type |-> next_line.type])
                ELSE notes_annotations
          /\ rel_annotations' =
                IF next_line.prefix = "R"
                THEN Append(rel_annotations,
                            [arg1 |-> next_line.arg1,
                             rel_type |-> next_line.rel_type,
                             arg2 |-> next_line.arg2,
                             rel_id |-> next_line.rel_id])
                ELSE rel_annotations
          /\ UNCHANGED <<printed, apc>>
    /\ UNCHANGED <<ai, ni>>
    /\ UNCHANGED <<relaxedVars, driverVars, offsetVars, relVars, tmlVars>>

\* the end of the file
EndOfFile ==
    /\ apc = "read"
    /\ apc' = "attributes"
    /\ UNCHANGED <<entity_annotations, attr_annotations, notes_annotations,
                   rel_annotations, line, printed, lines_read, ai, ni>>
    /\ UNCHANGED <<relaxedVars, driverVars, offsetVars, relVars, tmlVars>>

\* the entity annotations with the attribs of the one at index i replaced
WithAttribs(entities, i, attribs) ==
    [entities EXCEPT ![i] = [@ EXCEPT !.attribs = attribs]]

\* "2) merge attribute annotations into entity annotations": one attribute
\* annotation
MergeAttribute ==
    /\ apc = "attributes"
    /\ ai < Len(attr_annotations)
    /\ ai' = ai + 1
    /\ LET a == attr_annotations[ai + 1]
           i == FindEntity(entity_annotations, a.entity)
       IN  IF i = 0 THEN
              /\ printed' = Append(printed, "Cannot find entity to add attribute value")
              /\ UNCHANGED <<entity_annotations, apc>>
           ELSE
              \E r \in {MergeAttribs(entity_annotations[i].attribs,
                                     [k \in {a.a_name} |-> a.a_value])} :
                 /\ entity_annotations' =
                        WithAttribs(entity_annotations, i, r.attribs)
                 /\ apc' = IF r.ok THEN apc ELSE "failed"
                 /\ UNCHANGED printed
    /\ UNCHANGED <<attr_annotations, notes_annotations, rel_annotations,
                   line, lines_read, ni>>
    /\ UNCHANGED <<relaxedVars, driverVars, offsetVars, relVars, tmlVars>>

\* the attribute annotations are through
EndAttributes ==
    /\ apc = "attributes"
    /\ ai = Len(attr_annotations)
    /\ apc' = "notes"
    /\ UNCHANGED <<entity_annotations, attr_annotations, notes_annotations,
                   rel_annotations, line, printed, lines_read, ai, ni>>
    /\ UNCHANGED <<relaxedVars, driverVars, offsetVars, relVars, tmlVars>>

\* the 'comment' of an entity after one more COMMENT note; the notes joined
\* by ' | ' are kept as their sequence
AddComment(entity_attribs, notes_content) ==
    IF "comment" \notin DOMAIN entity_attribs
    THEN Put(entity_attribs, "comment", <<notes_content.note>>)
    ELSE Put(entity_attribs, "comment",
             Append(entity_attribs["comment"], notes_content.note))

\* "3) merge annotation notes annotations into entity annotations": one
\* notes annotation
MergeNotes ==
    /\ apc = "notes"
    /\ ni < Len(notes_annotations)
    /\ ni' = ni + 1
    /\ LET n == notes_annotations[ni + 1]
           i == FindEntity(entity_annotations, n.entity)
       IN  IF i = 0 THEN
              /\ printed' = Append(printed,
                    IF n.type = "TIMEX_ATTRIBS"
                    THEN "Cannot find entity to add attribute values"
                    ELSE "Cannot find entity to add comment")
              /\ UNCHANGED <<entity_annotations, apc>>
           ELSE IF n.type = "TIMEX_ATTRIBS" THEN
              \E r \in {MergeAttribs(entity_annotations[i].attribs, n.content)} :
                 /\ entity_annotations' =
                        WithAttribs(entity_annotations, i, r.attribs)
                 /\ apc' = IF r.ok THEN apc ELSE "failed"
                 /\ UNCHANGED printed
           ELSE
              /\ entity_annotations' =
                    WithAttribs(entity_annotations, i,
                        AddComment(entity_annotations[i].attribs, n.content))
              /\ UNCHANGED <<printed, apc>>
    /\ UNCHANGED <<attr_annotations, notes_annotations, rel_annotations,
                   line, lines_read, ai>>
    /\ UNCHANGED <<relaxedVars, driverVars, offsetVars, relVars, tmlVars>>

\* "return [entity_annotations, rel_annotations]"
ReturnAnnotations ==
    /\ apc = "notes"
    /\ ni = Len(notes_annotations)
    /\ apc' = "returned"
    /\ UNCHANGED <<entity_annotations, attr_annotations, notes_annotations,
                   rel_annotations, line, printed, lines_read, ai, ni>>
    /\ UNCHANGED <<relaxedVars, driverVars, offsetVars, relVars, tmlVars>>

NextBratAnnotations ==
    \/ \E next_line \in AnnLines : ReadLine(next_line)
    \/ EndOfFile
    \/ MergeAttribute
    \/ EndAttributes
    \/ MergeNotes
    \/ ReturnAnnotations

SpecBratAnnotations == InitBratAnnotations /\ [][NextBratAnnotations]_vars

(***************************************************************************)
(* SpecBratRelations: import_from_brat_folder after the entities are in    *)
(* their layers: the loop that adds the tlinks and the loop that adds the  *)
(* has_Argument relations.                                                 *)
(***************************************************************************)
TlinkTypes == {"BEFORE", "AFTER", "INCLUDES", "IS_INCLUDED", "SIMULTANEOUS"}

\* the relation records import_brat_annotations may return, without rel_id
RelationRecords ==
    {[arg1 |-> a[1], rel_type |-> t, arg2 |-> a[2]] :
        a \in {<<"T1", "T2">>, <<"T2", "T1">>, <<"T1", UnknownId>>},
        t \in TlinkTypes \cup {"has_Argument"}}

\* the corrected locations of the entities T1 and T2: T2 before T1, at its
\* start and shorter, at its start and longer, after it
EntityLocMaps ==
    {[e \in EntityIds |-> IF e = "T1" THEN <<(<<2, 4>>)>> ELSE <<l>>] :
        l \in {<<0, 1>>, <<2, 3>>, <<2, 5>>, <<5, 6>>}}

\* (mutant of TupleGreater: the starts alone are compared)
StartGreater(a, b) == a[1] > b[1]

\* Python's a > b for tuples (start, end)
TupleGreater(a, b) == a[1] > b[1] \/ (a[1] = b[1] /\ a[2] > b[2])

\* (mutant of NeedsReversal: no relation is reversed)
NeverReversed(arg1_loc, arg2_loc) == FALSE

\* "check if relation needs to be reversed"
NeedsReversal(arg1_loc, arg2_loc) == TupleGreater(arg1_loc[1], arg2_loc[1])

\* "change reltype" of a tlink
ReversedTlink(rel_type) ==
    IF rel_type = "AFTER" THEN "BEFORE"
    ELSE IF rel_type = "BEFORE" THEN "AFTER"
    ELSE IF rel_type = "INCLUDES" THEN "IS_INCLUDED"
    ELSE IF rel_type = "IS_INCLUDED" THEN "INCLUDES"
    ELSE rel_type

\* the annotation added for a relation whose arguments are known;
\* reversed_type is its type where the arguments are swapped
RelationAnnotation(rel, reversed_type) ==
    LET arg1_loc == entity_id_to_loc_map[rel.arg1]
        arg2_loc == entity_id_to_loc_map[rel.arg2]
        swap == NeedsReversal(arg1_loc, arg2_loc)
        first == IF swap THEN arg2_loc ELSE arg1_loc
        second == IF swap THEN arg1_loc ELSE arg2_loc
    IN  [brat_id |-> rel.rel_id,
         rel_type |-> IF swap THEN reversed_type ELSE rel.rel_type,
         spans |-> first \o second,
         b_index |-> Len(first)]

\* "assert rel_arg1 in entity_id_to_loc_map.keys()" and the same for rel_arg2
ArgumentsKnown(rel) ==
    /\ rel.arg1 \in DOMAIN entity_id_to_loc_map
    /\ rel.arg2 \in DOMAIN entity_id_to_loc_map

InitBratRelations ==
    /\ entity_id_to_loc_map \in EntityLocMaps
    /\ \E n \in 0 .. MaxRels : \E rels \in [1 .. n -> RelationRecords] :
          rel_annotations =
              [i \in 1 .. n |->
                  [arg1 |-> rels[i].arg1, rel_type |-> rels[i].rel_type,
                   arg2 |-> rels[i].arg2, rel_id |-> i]]
    /\ relations_layer = <<>>
    /\ arguments_layer = <<>>
    /\ ri = 0
    /\ fpc = "tlinks"
    /\ entity_annotations = <<>>
    /\ attr_annotations = <<>>
    /\ notes_annotations = <<>>
    /\ line = [prefix |-> "", parses |-> FALSE]
    /\ printed = <<>>
    /\ lines_read = 0
    /\ ai = 0
    /\ ni = 0
    /\ apc = "returned"
    /\ RelaxedIdle
    /\ DriverIdle
    /\ OffsetsIdle
    /\ TmlIdle

\* "Add tlink relation annotations": one relation record
AddTlink ==
    /\ fpc = "tlinks"
    /\ ri < Len(rel_annotations)
    /\ ri' = ri + 1
    /\ LET rel == rel_annotations[ri + 1]
       IN  IF rel.rel_type = "has_Argument"
           THEN UNCHANGED <<relations_layer, fpc>>
           ELSE IF ~ArgumentsKnown(rel)
           THEN fpc' = "failed" /\ UNCHANGED relations_layer
           ELSE /\ relations_layer' =
                      Append(relations_layer,
                             RelationAnnotation(rel, ReversedTlink(rel.rel_type)))
                /\ UNCHANGED fpc
    /\ UNCHANGED <<entity_id_to_loc_map, arguments_layer>>
    /\ UNCHANGED <<relaxedVars, driverVars, offsetVars, annVars, tmlVars>>

\* text_obj.add_layer( relations_layer )
EndTlinks ==
    /\ fpc = "tlinks"
    /\ ri = Len(rel_annotations)
    /\ ri' = 0
    /\ fpc' = "arguments"
    /\ UNCHANGED <<entity_id_to_loc_map, relations_layer, arguments_layer>>
    /\ UNCHANGED <<relaxedVars, driverVars, offsetVars, annVars, tmlVars>>

\* "Add has_Argument relations": one relation record
AddArgument ==
    /\ fpc = "arguments"
    /\ ri < Len(rel_annotations)
    /\ ri' = ri + 1
    /\ LET rel == rel_annotations[ri + 1]
       IN  IF rel.rel_type # "has_Argument"
           THEN UNCHANGED <<arguments_layer, fpc>>
           ELSE IF ~ArgumentsKnown(rel)
           THEN fpc' = "failed" /\ UNCHANGED arguments_layer
           ELSE /\ arguments_layer' =
                      Append(arguments_layer,
                             RelationAnnotation(rel, "is_Argument_of"))
                /\ UNCHANGED fpc
    /\ UNCHANGED <<entity_id_to_loc_map, relations_layer>>
    /\ UNCHANGED <<relaxedVars, driverVars, offsetVars, annVars, tmlVars>>

\* text_obj.add_layer( arguments_layer ); text_objects.append( text_obj )
EndArguments ==
    /\ fpc = "arguments"
    /\ ri = Len(rel_annotations)
    /\ fpc' = "done"
    /\ UNCHANGED <<entity_id_to_loc_map, relations_layer, arguments_layer, ri>>
    /\ UNCHANGED <<relaxedVars, driverVars, offsetVars, annVars, tmlVars>>

NextBratRelations == AddTlink \/ EndTlinks \/ AddArgument \/ EndArguments

SpecBratRelations == InitBratRelations /\ [][NextBratRelations]_vars

(***************************************************************************)
(* SpecTags: parse_tag_attributes, in its variant for double quotation     *)
(* marks (tml_conv_utils) and its variant for single ones (the Brat        *)
(* importer).  A tag is the sequence of its characters.                    *)
(***************************************************************************)
QuotationMarks == {"\"", "'"}

TagKeys == {<<"a">>, <<"b">>}

TagValues == {<<>>, <<"x">>, <<"y">>}

RECURSIVE WriteAttrs(_, _)
\* the attributes as they stand in a tag: key, '=', the value in marks q
WriteAttrs(attrs, q) ==
    IF attrs = <<>> THEN <<>>
    ELSE <<" ">> \o Head(attrs)[1] \o <<"=", q>> \o Head(attrs)[2] \o <<q>>
             \o WriteAttrs(Tail(attrs), q)

\* a tag with the attributes, and with one more quotation mark if stray
WriteTag(attrs, q, stray) ==
    <<"<", "T">> \o WriteAttrs(attrs, q)
        \o (IF stray THEN <<q>> ELSE <<>>) \o <<">">>

\* tag_str.count(q)
QuoteCount(s, q) == Cardinality({i \in DOMAIN s : s[i] = q})

\* the class [^= ] of the pattern
KeyChar(c) == c \notin {"=", " "}

\* the first index from i on that holds no key character
RunEnd(s, i) ==
    IF \E j \in i .. Len(s) : ~KeyChar(s[j])
    THEN CHOOSE j \in i .. Len(s) :
            /\ ~KeyChar(s[j])
            /\ \A k \in i .. j - 1 : KeyChar(s[k])
    ELSE Len(s) + 1

\* tag_attribs_pat matches at index i: a run of key characters, '=', a mark,
\* one or more characters that are no marks, a mark
MatchAt(s, q, i) ==
    LET e == RunEnd(s, i)
    IN  /\ e > i
        /\ e + 2 <= Len(s)
        /\ s[e] = "="
        /\ s[e + 1] = q
        /\ s[e + 2] # q
        /\ \E j \in e + 3 .. Len(s) : s[j] = q

\* the match at index i: group(1), group(2) and the index after the match
MatchOf(s, q, i) ==
    LET e == RunEnd(s, i)
        close == CHOOSE j \in e + 3 .. Len(s) :
                    /\ s[j] = q
                    /\ \A k \in e + 3 .. j - 1 : s[k] # q
    IN  [key |-> SubSeq(s, i, e - 1),
         value |-> SubSeq(s, e + 2, close - 1),
         end |-> close + 1]

\* finditer: the leftmost index from p on where the pattern matches, or 0
FindMatch(s, q, p) ==
    IF \E i \in p .. Len(s) : MatchAt(s, q, i)
    THEN CHOOSE i \in p .. Len(s) :
            /\ MatchAt(s, q, i)
            /\ \A k \in p .. i - 1 : ~MatchAt(s, q, k)
    ELSE 0

\* "if key in attribs: if attribs[key] != value"
Conflicting(map, key, value) == key \in DOMAIN map /\ map[key] # value

InitTags ==
    /\ quote \in QuotationMarks
    /\ \E n \in 0 .. MaxAttrs :
          tag_attrs \in [1 .. n -> TagKeys \X TagValues]
    /\ \E stray \in BOOLEAN : tag_str = WriteTag(tag_attrs, quote, stray)
    /\ pos = 1
    /\ tag_attribs = <<>>
    /\ tpc = "call"
    /\ RelaxedIdle
    /\ DriverIdle
    /\ BratIdle
    /\ ScopesIdle
    /\ TextIdle
    /\ UtilIdle

\* the assertion on the number of quotation marks; attribs = {}
CountQuotes ==
    /\ tpc = "call"
    /\ tpc' = IF QuoteCount(tag_str, quote) % 2 = 0 THEN "scan" ELSE "failed"
    /\ UNCHANGED <<tag_attrs, tag_str, quote, pos, tag_attribs>>
    /\ UNCHANGED <<relaxedVars, driverVars, bratVars, scopeVars, textVars, utilVars>>

\* one round of "for attr_match in tag_attribs_pat.finditer(tag_str)"
NextAttribute ==
    /\ tpc = "scan"
    /\ FindMatch(tag_str, quote, pos) # 0
    /\ LET attr_match == MatchOf(tag_str, quote, FindMatch(tag_str, quote, pos))
           key == attr_match.key
           value == attr_match.value
       IN  IF Conflicting(tag_attribs, key, value)
           THEN tpc' = "failed" /\ UNCHANGED <<pos, tag_attribs>>
           ELSE /\ tag_attribs' =
                      [k \in DOMAIN tag_attribs \cup {key} |->
                          IF k = key THEN value ELSE tag_attribs[k]]
                /\ pos' = attr_match.end
                /\ UNCHANGED tpc
    /\ UNCHANGED <<tag_attrs, tag_str, quote>>
    /\ UNCHANGED <<relaxedVars, driverVars, bratVars, scopeVars, textVars, utilVars>>

\* return attribs
ReturnAttribs ==
    /\ tpc = "scan"
    /\ FindMatch(tag_str, quote, pos) = 0
    /\ tpc' = "returned"
    /\ UNCHANGED <<tag_attrs, tag_str, quote, pos, tag_attribs>>
    /\ UNCHANGED <<relaxedVars, driverVars, bratVars, scopeVars, textVars, utilVars>>

NextTags == CountQuotes \/ NextAttribute \/ ReturnAttribs

SpecTags == InitTags /\ [][NextTags]_vars

(***************************************************************************)
(* SpecScopes: import_t3_olp_ajav_file reading the lines of a file: TIMEX  *)
(* tags that start a phrase, end a phrase or stand alone, sentence tags,   *)
(* metadata blocks and lines of word analyses.  A string is the sequence   *)
(* of its characters; every word is one character.                         *)
(***************************************************************************)
Tids == {"t1", "t2"}

\* '<TIMEX tid=".." type="DATE">', '</TIMEX>', '<TIMEX tid=".." .. />',
\* '<s>', '</s>', a line with a word and its analyses, and a metadata
\* block: '<ignoreeri>', lines of key: value fields and '</ignoreeri>'
T3Lines ==
    {[kind |-> "open", tid |-> t] : t \in Tids}
        \cup {[kind |-> k, tid |-> ""] :
                 k \in {"close", "word", "s", "ends", "metadata"}}
        \cup {[kind |-> "empty", tid |-> "t0"]}

\* the separators of the call: the default ones, and ones of other lengths
\* with a sentence separator that is no part of the paragraph separator
Separators ==
    {[token_sep |-> <<" ">>, sentence_sep |-> <<NL>>,
      paragraph_sep |-> <<NL, NL>>],
     [token_sep |-> <<>>, sentence_sep |-> <<" ", " ">>,
      paragraph_sep |-> <<NL>>]}

\* sub in str
Contains(sub, str) ==
    \E i \in 0 .. Len(str) - Len(sub) : SubSeq(str, i + 1, i + Len(sub)) = sub

InitScopes ==
    /\ t3_lines = <<>>
    /\ li = 0
    /\ cur_tokens = <<>>
    /\ cur_text_len = 0
    /\ nested_timexes = <<>>
    /\ nested_timex_starts = <<>>
    /\ raw_timexes = <<>>
    /\ spc = "read"
    /\ \E seps \in Separators :
          /\ token_sep = seps.token_sep
          /\ sentence_sep = seps.sentence_sep
          /\ paragraph_sep = seps.paragraph_sep
    /\ prev_was_sent_end = FALSE
    /\ sentence_locs = <<>>
    /\ metadata = <<>>
    /\ RelaxedIdle
    /\ DriverIdle
    /\ BratIdle
    /\ TagsIdle
    /\ TextIdle
    /\ UtilIdle

\* "for line in in_f": the next line of a file of at most MaxT3Lines lines
NextLine(next_line) ==
    /\ spc = "read"
    /\ li < MaxT3Lines
    /\ li' = li + 1
    /\ t3_lines' = Append(t3_lines, next_line)
    /\ UNCHANGED <<token_sep, sentence_sep, paragraph_sep>>
    /\ UNCHANGED <<relaxedVars, driverVars, bratVars, tagVars, textVars, utilVars>>

\* "an empty TIMEX tag (can also be DCT)"
EmptyTimex(next_line) ==
    /\ NextLine(next_line)
    /\ next_line.kind = "empty"
    /\ raw_timexes' = Append(raw_timexes,
                             [tid |-> next_line.tid, type |-> "DATE"])
    /\ UNCHANGED <<cur_tokens, cur_text_len, nested_timexes,
                   nested_timex_starts, spc, prev_was_sent_end,
                   sentence_locs, metadata>>

\* "TIMEX tag starting a phrase"
OpenTimex(next_line) ==
    /\ NextLine(next_line)
    /\ next_line.kind = "open"
    /\ LET tag == [tid |-> next_line.tid, type |-> "DATE"]
           start_pos == IF Len(cur_tokens) > 0 /\ ~prev_was_sent_end
                        THEN cur_text_len + Len(token_sep)
                        ELSE cur_text_len
       IN  /\ nested_timexes' = Append(nested_timexes, tag)
           /\ nested_timex_starts' = Append(nested_timex_starts, start_pos)
    /\ UNCHANGED <<cur_tokens, cur_text_len, raw_timexes, spc,
                   prev_was_sent_end, sentence_locs, metadata>>

\* "TIMEX tag ending a phrase": nested_timexes.pop() raises IndexError on an
\* empty list
CloseTimex(next_line) ==
    /\ NextLine(next_line)
    /\ next_line.kind = "close"
    /\ IF nested_timexes = <<>>
       THEN /\ spc' = "failed"
            /\ UNCHANGED <<nested_timexes, nested_timex_starts, raw_timexes>>
       ELSE LET n == Len(nested_timexes)
                tag == nested_timexes[n]
            IN  /\ nested_timexes' = SubSeq(nested_timexes, 1, n - 1)
                /\ nested_timex_starts' = SubSeq(nested_timex_starts, 1, n - 1)
                /\ raw_timexes' =
                      Append(raw_timexes,
                             [tid |-> tag.tid, type |-> tag.type,
                              _start |-> nested_timex_starts[n],
                              _end |-> cur_text_len])
                /\ UNCHANGED spc
    /\ UNCHANGED <<cur_tokens, cur_text_len, prev_was_sent_end,
                   sentence_locs, metadata>>

\* (mutant of LenAfterReplacing: the length grows as if the paragraph
\* separator were appended)
LenAfterAppending(len) == len + Len(paragraph_sep)

\* "cur_text_len += len(paragraph_sep) - len(sentence_sep)"
LenAfterReplacing(len) == len + Len(paragraph_sep) - Len(sentence_sep)

\* '</ignoreeri>' after the lines of a metadata block: metadata seen before,
\* and after tokens, marks a paragraph boundary
MetadataBlock(next_line) ==
    /\ NextLine(next_line)
    /\ next_line.kind = "metadata"
    /\ IF Len(metadata) > 0 /\ Len(cur_tokens) > 0
       THEN /\ IF /\ cur_tokens[Len(cur_tokens)] = sentence_sep
                  /\ Contains(sentence_sep, paragraph_sep)
               THEN /\ cur_tokens' =
                          [cur_tokens EXCEPT ![Len(cur_tokens)] = paragraph_sep]
                    /\ cur_text_len' = LenAfterReplacing(cur_text_len)
               ELSE /\ cur_tokens' = Append(cur_tokens, paragraph_sep)
                    /\ cur_text_len' = cur_text_len + Len(paragraph_sep)
            /\ UNCHANGED metadata
       ELSE /\ metadata' = Append(metadata, "cur_metadata")
            /\ UNCHANGED <<cur_tokens, cur_text_len>>
    /\ UNCHANGED <<nested_timexes, nested_timex_starts, raw_timexes, spc,
                   prev_was_sent_end, sentence_locs>>

\* '<s>'
SentenceStart(next_line) ==
    /\ NextLine(next_line)
    /\ next_line.kind = "s"
    /\ sentence_locs' = Append(sentence_locs, <<cur_text_len>>)
    /\ UNCHANGED <<cur_tokens, cur_text_len, nested_timexes,
                   nested_timex_starts, raw_timexes, spc, prev_was_sent_end,
                   metadata>>

\* '</s>': sentence_locs[-1] raises IndexError on an empty list, and the
\* assertion fails where the last sentence has its end already
SentenceEnd(next_line) ==
    /\ NextLine(next_line)
    /\ next_line.kind = "ends"
    /\ cur_tokens' = Append(cur_tokens, sentence_sep)
    /\ cur_text_len' = cur_text_len + Len(sentence_sep)
    /\ IF sentence_locs = <<>> \/ Len(sentence_locs[Len(sentence_locs)]) # 1
       THEN /\ spc' = "failed"
            /\ UNCHANGED <<sentence_locs, prev_was_sent_end>>
       ELSE /\ sentence_locs' =
                  [sentence_locs EXCEPT ![Len(sentence_locs)] =
                      Append(@, cur_text_len')]
            /\ prev_was_sent_end' = TRUE
            /\ UNCHANGED spc
    /\ UNCHANGED <<nested_timexes, nested_timex_starts, raw_timexes, metadata>>

\* a line of word analyses: the token separator, then the word
WordLine(next_line) ==
    /\ NextLine(next_line)
    /\ next_line.kind = "word"
    /\ IF Len(cur_tokens) > 0 /\ ~prev_was_sent_end
       THEN /\ cur_tokens' = cur_tokens \o <<token_sep, <<"w">>>>
            /\ cur_text_len' = cur_text_len + Len(token_sep) + 1
       ELSE /\ cur_tokens' = Append(cur_tokens, <<"w">>)
            /\ cur_text_len' = cur_text_len + 1
    /\ prev_was_sent_end' = FALSE
    /\ UNCHANGED <<nested_timexes, nested_timex_starts, raw_timexes, spc,
                   sentence_locs, metadata>>

RECURSIVE JoinedLen(_)
\* len(''.join(cur_tokens))
JoinedLen(tokens) ==
    IF tokens = <<>> THEN 0 ELSE Len(Head(tokens)) + JoinedLen(Tail(tokens))

\* "Construct new text object": the end of the file.  create_new_text_obj
\* asserts the length of the text and that there is metadata, and gets
\* raw_timexes; a file without tokens gives None
ConstructText ==
    /\ spc = "read"
    /\ spc' = IF Len(cur_tokens) = 0 THEN "none"
              ELSE IF JoinedLen(cur_tokens) = cur_text_len /\ Len(metadata) >= 1
              THEN "returned"
              ELSE "failed"
    /\ UNCHANGED <<t3_lines, li, cur_tokens, cur_text_len, nested_timexes,
                   nested_timex_starts, raw_timexes, readerVars>>
    /\ UNCHANGED <<relaxedVars, driverVars, bratVars, tagVars, textVars, utilVars>>

NextScopes ==
    \/ \E next_line \in T3Lines :
          \/ EmptyTimex(next_line)
          \/ OpenTimex(next_line)
          \/ CloseTimex(next_line)
          \/ MetadataBlock(next_line)
          \/ SentenceStart(next_line)
          \/ SentenceEnd(next_line)
          \/ WordLine(next_line)
    \/ ConstructText

SpecScopes == InitScopes /\ [][NextScopes]_vars

(***************************************************************************)
(* SpecTextObj: create_new_text_obj adding the records of raw_timexes to   *)
(* the timexes layer.  A record is [tid, type, explicit, beginPoint,       *)
(* endPoint]: explicit stands for '_start' and '_end' being in the record, *)
(* a point is [ref, embedded], ref = "" standing for the attribute not     *)
(* being in the record and embedded for the tid having been replaced by    *)
(* the record of the point.                                                *)
(***************************************************************************)
NoPoint == [ref |-> "", embedded |-> FALSE]

\* the document creation time: an empty TIMEX tag
CreationTime ==
    [tid |-> "t0", type |-> "DATE", explicit |-> FALSE,
     beginPoint |-> NoPoint, endPoint |-> NoPoint]

TimexId(i) == <<"t1", "t2", "t3", "t4">>[i]

PointRefs == {"", "t0"} \cup {TimexId(i) : i \in 1 .. MaxTimexes}

\* 'beginPoint' in timex and timex['beginPoint'] == tid
PointIs(point, tid) == point.ref # "" /\ ~point.embedded /\ point.ref = tid

\* get_parent_of_interval: the index of the first record that has the tid
\* as its beginPoint or endPoint, or 0
get_parent_of_interval(cur_timex, other_timexes) ==
    LET parents == {j \in DOMAIN other_timexes :
                       \/ PointIs(other_timexes[j].beginPoint, cur_timex.tid)
                       \/ PointIs(other_timexes[j].endPoint, cur_timex.tid)}
    IN  IF parents = {} THEN 0
        ELSE CHOOSE j \in parents : \A k \in parents : j <= k

\* the index of the last record, t0 left aside, that the point names, or 0
PointRecord(point, other_timexes) ==
    LET named == {j \in DOMAIN other_timexes :
                     /\ other_timexes[j].tid # "t0"
                     /\ PointIs(point, other_timexes[j].tid)}
    IN  IF named = {} THEN 0
        ELSE CHOOSE j \in named : \A k \in named : j >= k

\* get_child_timepoints: the indices of begin_point and end_point, 0 for None
get_child_timepoints(cur_timex, other_timexes, only_implicit) ==
    LET b == PointRecord(cur_timex.beginPoint, other_timexes)
        e == PointRecord(cur_timex.endPoint, other_timexes)
        Keep(j) == IF only_implicit /\ j # 0 /\ other_timexes[j].explicit
                   THEN 0 ELSE j
    IN  <<Keep(b), Keep(e)>>

\* (mutant of is_removable_interval_timex: one explicit point is enough)
is_removable_with_one_point(tmx, other_timexes) ==
    /\ tmx.type = "DURATION"
    /\ LET points == get_child_timepoints(tmx, other_timexes, FALSE)
       IN  \/ points[1] # 0 /\ other_timexes[points[1]].explicit
           \/ points[2] # 0 /\ other_timexes[points[2]].explicit

is_removable_interval_timex(tmx, other_timexes) ==
    /\ tmx.type = "DURATION"
    /\ LET points == get_child_timepoints(tmx, other_timexes, FALSE)
       IN  /\ points[1] # 0 /\ other_timexes[points[1]].explicit
           /\ points[2] # 0 /\ other_timexes[points[2]].explicit

\* what convert_timex_to_ordered_dict keeps of the points of a record, the
\* tid "" standing for no record
OrderedDict(tmx) ==
    [tid |-> tmx.tid, begin_point |-> tmx.beginPoint,
     end_point |-> tmx.endPoint]

NoDict == [tid |-> "", begin_point |-> NoPoint, end_point |-> NoPoint]

\* the annotation of a record: convert_timex_attributes of its copy, with
\* the interval it is a point of
Annotation(tmx, part_of_interval) ==
    [tid |-> tmx.tid, begin_point |-> tmx.beginPoint,
     end_point |-> tmx.endPoint, part_of_interval |-> part_of_interval]

InitTextObj ==
    /\ \E first \in [type : {"DATE", "DURATION"}, explicit : BOOLEAN,
                     b : PointRefs, e : PointRefs] :
       \E rest \in [2 .. MaxTimexes ->
                       [type : {"DATE", "DURATION"}, explicit : BOOLEAN,
                        b : {"", TimexId(1)}]] :
          raw_timexes =
              <<CreationTime>> \o
              [i \in 1 .. MaxTimexes |->
                  IF i = 1
                  THEN [tid |-> TimexId(1), type |-> first.type,
                        explicit |-> first.explicit,
                        beginPoint |-> [ref |-> first.b, embedded |-> FALSE],
                        endPoint |-> [ref |-> first.e, embedded |-> FALSE]]
                  ELSE [tid |-> TimexId(i), type |-> rest[i].type,
                        explicit |-> rest[i].explicit,
                        beginPoint |-> [ref |-> rest[i].b, embedded |-> FALSE],
                        endPoint |-> NoPoint]]
    /\ timexes_layer = <<>>
    /\ xi = 0
    /\ xpc = "timexes"
    /\ t3_lines = <<>>
    /\ li = 0
    /\ cur_tokens = <<(<<"w">>)>>
    /\ cur_text_len = 1
    /\ ReaderIdle
    /\ nested_timexes = <<>>
    /\ nested_timex_starts = <<>>
    /\ spc = "returned"
    /\ RelaxedIdle
    /\ DriverIdle
    /\ BratIdle
    /\ TagsIdle
    /\ UtilIdle

\* a record without '_start' and '_end' gets no annotation
SkipImplicit ==
    /\ xpc = "timexes"
    /\ xi < Len(raw_timexes)
    /\ ~raw_timexes[xi + 1].explicit
    /\ xi' = xi + 1
    /\ UNCHANGED <<timexes_layer, xpc, scopeVars>>
    /\ UNCHANGED <<relaxedVars, driverVars, bratVars, tagVars, utilVars>>

\* one round of "for timex in raw_timexes" for a record with '_start' and
\* '_end'; located is whether the position of its text is found
AddTimex ==
    /\ xpc = "timexes"
    /\ xi < Len(raw_timexes)
    /\ raw_timexes[xi + 1].explicit
    /\ xi' = xi + 1
    /\ \E located \in BOOLEAN :
       LET tmx == raw_timexes[xi + 1]
           interval_timex == get_parent_of_interval(tmx, raw_timexes)
           children == get_child_timepoints(tmx, raw_timexes, TRUE)
       IN  IF interval_timex # 0 /\ raw_timexes[interval_timex].type # "DURATION"
           THEN xpc' = "failed" /\ UNCHANGED <<timexes_layer, raw_timexes>>
           ELSE IF is_removable_interval_timex(tmx, raw_timexes)
           THEN UNCHANGED <<timexes_layer, raw_timexes, xpc>>
           ELSE /\ raw_timexes' =
                      [raw_timexes EXCEPT ![xi + 1] =
                          [@ EXCEPT
                              !.beginPoint =
                                  IF children[1] # 0
                                  THEN [@ EXCEPT !.embedded = TRUE] ELSE @,
                              !.endPoint =
                                  IF children[2] # 0
                                  THEN [@ EXCEPT !.embedded = TRUE] ELSE @]]
                /\ IF located
                   THEN /\ timexes_layer' =
                              Append(timexes_layer,
                                     Annotation(raw_timexes'[xi + 1],
                                                IF interval_timex # 0
                                                THEN OrderedDict(raw_timexes[interval_timex])
                                                ELSE NoDict))
                        /\ UNCHANGED xpc
                   ELSE xpc' = "failed" /\ UNCHANGED timexes_layer
    /\ UNCHANGED <<t3_lines, li, cur_tokens, cur_text_len, nested_timexes,
                   nested_timex_starts, spc, readerVars>>
    /\ UNCHANGED <<relaxedVars, driverVars, bratVars, tagVars, utilVars>>

\* text_obj.add_layer( timexes_layer ); return text_obj
ReturnTextObj ==
    /\ xpc = "timexes"
    /\ xi = Len(raw_timexes)
    /\ xpc' = "done"
    /\ UNCHANGED <<timexes_layer, xi, scopeVars>>
    /\ UNCHANGED <<relaxedVars, driverVars, bratVars, tagVars, utilVars>>

NextTextObj == SkipImplicit \/ AddTimex \/ ReturnTextObj

SpecTextObj == InitTextObj /\ [][NextTextObj]_vars

(***************************************************************************)
(* SpecTrim: fix_timex_start_end_locations on one record with offsets.     *)
(* " " stands for the whitespace, "?" for the marks ? , and !              *)
(***************************************************************************)
TrimChars == {"a", " ", "?", "«", "»"}

\* text_str[i] of Python: an index below 0 counts from the end, and an index
\* outside the text raises IndexError
Indexable(text, i) == -Len(text) <= i /\ i < Len(text)

CharAt(text, i) == IF i >= 0 THEN text[i + 1] ELSE text[Len(text) + i + 1]

\* "text_str[timex['_start']].isspace() or text_str[timex['_start']] in ['«']"
LeadingJunk(c) == c \in {" ", "«"}

\* "text_str[timex['_end']-1].isspace() or ... in ['?',',','!', '»']"
TrailingJunk(c) == c \in {" ", "?", "»"}

InitTrim ==
    /\ \E n \in 1 .. MaxTextLen : clean_text \in [1 .. n -> TrimChars]
    /\ parsed \in {l \in (0 .. Len(clean_text)) \X (0 .. Len(clean_text)) :
                      l[1] <= l[2]}
    /\ t_start = parsed[1]
    /\ t_end = parsed[2]
    /\ kpc = "start"
    /\ RelaxedIdle
    /\ DriverIdle
    /\ BratIdle
    /\ TagsIdle
    /\ ScopesIdle
    /\ TextIdle
    /\ OverlapIdle

\* one test of the first while loop, and its body
TrimStart ==
    /\ kpc = "start"
    /\ IF ~Indexable(clean_text, t_start)
       THEN kpc' = "failed" /\ UNCHANGED t_start
       ELSE IF LeadingJunk(CharAt(clean_text, t_start))
       THEN t_start' = t_start + 1 /\ UNCHANGED kpc
       ELSE kpc' = "end" /\ UNCHANGED t_start
    /\ UNCHANGED <<clean_text, parsed, t_end, overlapVars>>
    /\ UNCHANGED <<relaxedVars, driverVars, bratVars, tagVars, scopeVars,
                   textVars>>

\* one test of the second while loop, and its body
TrimEnd ==
    /\ kpc = "end"
    /\ IF ~Indexable(clean_text, t_end - 1)
       THEN kpc' = "failed" /\ UNCHANGED t_end
       ELSE IF TrailingJunk(CharAt(clean_text, t_end - 1))
       THEN t_end' = t_end - 1 /\ UNCHANGED kpc
       ELSE kpc' = "done" /\ UNCHANGED t_end
    /\ UNCHANGED <<clean_text, parsed, t_start, overlapVars>>
    /\ UNCHANGED <<relaxedVars, driverVars, bratVars, tagVars, scopeVars,
                   textVars>>

NextTrim == TrimStart \/ TrimEnd

SpecTrim == InitTrim /\ [][NextTrim]_vars

(***************************************************************************)
(* SpecOverlap: locations_overlap, as create_new_text_obj calls it with    *)
(* the location of a record and a candidate location.                      *)
(***************************************************************************)
locations_overlap(a, b, x, y) ==
    \/ a <= x /\ y <= b
    \/ x <= a /\ b <= y
    \/ a <= x /\ x <= b
    \/ x <= b /\ b <= y

InitOverlap ==
    /\ timex_loc \in {l \in (0 .. MaxLoc) \X (0 .. MaxLoc) : l[1] < l[2]}
    /\ candidate_loc \in {l \in (0 .. MaxLoc) \X (0 .. MaxLoc) : l[1] < l[2]}
    /\ overlap = FALSE
    /\ vpc = "call"
    /\ RelaxedIdle
    /\ DriverIdle
    /\ BratIdle
    /\ TagsIdle
    /\ ScopesIdle
    /\ TextIdle
    /\ TrimIdle

\* "if locations_overlap( timex['_start'], timex['_end'], i, j )"
CallOverlap ==
    /\ vpc = "call"
    /\ overlap' = locations_overlap(timex_loc[1], timex_loc[2],
                                    candidate_loc[1], candidate_loc[2])
    /\ vpc' = "returned"
    /\ UNCHANGED <<timex_loc, candidate_loc, trimVars>>
    /\ UNCHANGED <<relaxedVars, driverVars, bratVars, tagVars, scopeVars,
                   textVars>>

NextOverlap == CallOverlap

SpecOverlap == InitOverlap /\ [][NextOverlap]_vars

(***************************************************************************)
(* Properties of the relaxed pairing (SpecRelaxed).                        *)
(***************************************************************************)
\* the conflicts consumed so far that involve the gold span at key gk
ConflictsOf(gk) == {i \in 1 .. ci : Key(conflicts[i][1]) = gk}

\* the conflict that made the present pair of gold key gk
PairedAt(gk) ==
    CHOOSE i \in ConflictsOf(gk) : conflicts[i] = map_gold_to_auto[gk]

ScoreAt(i) == Score(conflicts[i][1], conflicts[i][2])

\* the call has come back and every conflict was consumed step by step
Returned == rpc = "returned" /\ run = 1

\* C1: at every point of the relaxed loop the pairing is one-to-one: no gold
\* span has two system spans and no system span two gold spans, and
\* map_gold_to_auto and map_auto_to_gold hold exactly the same pairs, each
\* under the key of its gold span and of its system span; no assertion of the
\* call fails.
C1_OneToOne ==
    /\ rpc # "failed"
    /\ Cardinality(DOMAIN map_gold_to_auto) = Cardinality(DOMAIN map_auto_to_gold)
    /\ Pairs = {map_auto_to_gold[k] : k \in DOMAIN map_auto_to_gold}
    /\ \A k \in DOMAIN map_gold_to_auto : Key(map_gold_to_auto[k][1]) = k
    /\ \A k \in DOMAIN map_auto_to_gold : Key(map_auto_to_gold[k][2]) = k
    /\ \A p, q \in Pairs : (p[1] = q[1]) <=> (p[2] = q[2])

\* a call that paired two gold spans and in which a system span was refused
\* because it was taken, and is free again at the end
C1_Witness ==
    /\ Returned
    /\ Cardinality(Pairs) >= 2
    /\ \E i \in 1 .. ci :
          /\ ~avail[i]
          /\ Key(conflicts[i][2]) \notin DOMAIN map_auto_to_gold

\* C2: when a call returns, the lenient counts it added plus the number of
\* relaxed pairs are the strict counts, and the lenient counts are not
\* negative; the assertions after the subtraction do not fail.
C2_LenientCounts ==
    /\ rpc # "failed"
    /\ Returned =>
          /\ diffs_dict.missing_spans = Meta(diff_layer).missing_spans
          /\ diffs_dict.extra_spans = Meta(diff_layer).extra_spans
          /\ diffs_dict.missing_spans_lenient + Cardinality(Pairs)
                = diffs_dict.missing_spans
          /\ diffs_dict.extra_spans_lenient + Cardinality(Pairs)
                = diffs_dict.extra_spans
          /\ diffs_dict.missing_spans_lenient >= 0
          /\ diffs_dict.extra_spans_lenient >= 0

\* a call with a relaxed pair, and a gold and a system span that took part in
\* conflicts and stay unpaired
C2_Witness ==
    /\ Returned
    /\ Pairs # {}
    /\ \E i, j \in 1 .. ci :
          /\ Key(conflicts[i][1]) \notin DOMAIN map_gold_to_auto
          /\ Key(conflicts[j][2]) \notin DOMAIN map_auto_to_gold

\* C3 as claimed: at the end of the pass no paired gold span has a
\* conflicting system span that is unmatched at the end and scores higher
\* than its pair.
C3_BestAvailableAtEnd ==
    Returned =>
        \A gk \in DOMAIN map_gold_to_auto : \A i \in ConflictsOf(gk) :
            Key(conflicts[i][2]) \notin DOMAIN map_auto_to_gold =>
                ScoreAt(i) <= ScoreAt(PairedAt(gk))

\* C3 amended: at the end of the pass no paired gold span has a conflicting
\* system span that was unmatched when that conflict was encountered and
\* scores higher than its pair, or scores the same and was encountered
\* earlier.
C3_BestAvailableWhenMet ==
    Returned =>
        \A gk \in DOMAIN map_gold_to_auto : \A i \in ConflictsOf(gk) :
            (avail[i] /\ i # PairedAt(gk)) =>
                /\ ScoreAt(i) <= ScoreAt(PairedAt(gk))
                /\ ScoreAt(i) = ScoreAt(PairedAt(gk)) => i > PairedAt(gk)

\* a gold span that met three free system spans: a lower score before its
\* pair, and the same score after it
C3_Witness ==
    /\ Returned
    /\ \E gk \in DOMAIN map_gold_to_auto : \E i, j \in ConflictsOf(gk) :
          /\ avail[i] /\ avail[j]
          /\ i < PairedAt(gk) /\ ScoreAt(i) < ScoreAt(PairedAt(gk))
          /\ j > PairedAt(gk) /\ ScoreAt(j) = ScoreAt(PairedAt(gk))

\* the conflicts that share no span with another conflict
Isolated(i) ==
    \A j \in DOMAIN conflicts :
        j # i => /\ Key(conflicts[j][1]) # Key(conflicts[i][1])
                 /\ Key(conflicts[j][2]) # Key(conflicts[i][2])

\* C4: a conflict whose spans take part in no other conflict is paired, and
\* the pair is taken off the lenient missing and extra counts.
C4_IsolatedConflictPaired ==
    Returned =>
        \A i \in DOMAIN conflicts : Isolated(i) =>
            /\ Key(conflicts[i][1]) \in DOMAIN map_gold_to_auto
            /\ map_gold_to_auto[Key(conflicts[i][1])] = conflicts[i]
            /\ diffs_dict.missing_spans_lenient < diffs_dict.missing_spans
            /\ diffs_dict.extra_spans_lenient < diffs_dict.extra_spans

\* C5: a second call on the same diff layer returns as the first one did,
\* ends with the pairs of the first call and adds to the accumulator what
\* the first call added.
C5_Idempotent ==
    run = 2 =>
        /\ rpc = "returned"
        /\ Pairs = first_run.pairs
        /\ \A k \in DOMAIN ZeroDict \ {"matching_", "total_", "total_relevant_",
                                      "total_retrieved_", "total_pr_matching_"} :
              diffs_dict[k] = 2 * first_run.dict[k]
        /\ \A k \in {"matching_", "total_", "total_relevant_",
                     "total_retrieved_", "total_pr_matching_"} :
              \A a \in AttrSet : diffs_dict[k][a] = 2 * first_run.dict[k][a]

\* a second call after a first one that released a system span and kept a
\* pair
C5_Witness ==
    /\ rpc = "returned" /\ run = 2
    /\ first_run.pairs # {}
    /\ \E i \in 1 .. ci :
          /\ avail[i]
          /\ ScoreAt(i) > 0
          /\ Key(conflicts[i][2]) \notin DOMAIN map_auto_to_gold

(***************************************************************************)
(* Properties of the driver and of the reports (Spec).                     *)
(***************************************************************************)
\* pointwise sum of two accumulators
AddDicts(x, y) ==
    [k \in DOMAIN x |->
        IF k \in {"matching_", "total_", "total_relevant_", "total_retrieved_",
                  "total_pr_matching_"}
        THEN [a \in AttrSet |-> x[k][a] + y[k][a]]
        ELSE x[k] + y[k]]

\* the accumulator of document i alone: what its own report was computed
\* from (doc_diffs_dict)
DocCounts(i) ==
    (CHOOSE e \in {log[j] : j \in DOMAIN log} :
        e.kind = "document" /\ e.members = {i}).counts

RECURSIVE SumOver(_)
SumOver(S) ==
    IF S = {} THEN ZeroDict
    ELSE LET i == CHOOSE x \in S : TRUE
         IN  AddDicts(DocCounts(i), SumOver(S \ {i}))

Hits(d) == d.unchanged_spans + d.modified_spans

\* x is the quotient n / d
IsQuotient(x, n, d) == x[1] * d = n * x[2]

\* C6: the accumulated gold_spans and auto_spans are unchanged + modified +
\* missing and unchanged + modified + extra, the numbers of gold and system
\* spans of the documents; in every report the strict recall and precision
\* are (unchanged + modified) over them, 0 where the denominator is 0, and
\* F1 is their harmonic mean, 0 where recall + precision is 0.
C6_StrictMetrics ==
    /\ corpus_diffs_dict.gold_spans = true_spans.gold
    /\ corpus_diffs_dict.auto_spans = true_spans.auto
    /\ \A j \in DOMAIN log :
          LET d == log[j].counts
              r == calculate_results(d).strict
          IN  /\ d.gold_spans = Hits(d) + d.missing_spans
              /\ d.auto_spans = Hits(d) + d.extra_spans
              /\ IF d.gold_spans = 0 THEN r.rec = RZero
                 ELSE IsQuotient(r.rec, Hits(d), d.gold_spans)
              /\ IF d.auto_spans = 0 THEN r.prec = RZero
                 ELSE IsQuotient(r.prec, Hits(d), d.auto_spans)
              /\ IF Hits(d) = 0 THEN r.f1 = RZero
                 ELSE IsQuotient(r.f1, 2 * Hits(d), d.gold_spans + d.auto_spans)
              /\ log[j].results.strict[1] = Format3(Ratio(Hits(d), d.gold_spans))
              /\ log[j].results.strict[2] = Format3(Ratio(Hits(d), d.auto_spans))

\* a report over documents with more gold than system spans, some matched
\* and some not, beside the report of a document with no gold span
C6_Witness ==
    /\ pc = "done"
    /\ \E j \in DOMAIN log :
          /\ 0 < Hits(log[j].counts)
          /\ Hits(log[j].counts) < log[j].counts.gold_spans
          /\ log[j].counts.auto_spans < log[j].counts.gold_spans
    /\ \E j \in DOMAIN log :
          log[j].counts.gold_spans = 0 /\ log[j].counts.auto_spans > 0

\* C7: the relaxed denominators are the numbers of gold and system spans,
\* and the relaxed recall and precision of every report are
\* (unchanged + modified) over them.
C7_RelaxedDenominators ==
    /\ corpus_diffs_dict.gold_spans_lenient = true_spans.gold
    /\ corpus_diffs_dict.auto_spans_lenient = true_spans.auto
    /\ \A j \in DOMAIN log :
          LET d == log[j].counts
              r == calculate_results(d).relaxed
          IN  /\ d.gold_spans > 0 => IsQuotient(r.rec, Hits(d), d.gold_spans)
              /\ d.auto_spans > 0 => IsQuotient(r.prec, Hits(d), d.auto_spans)

\* C8: every accumulator is the sum of the accumulators of its documents
\* taken alone: the corpus accumulator over all documents so far, the
\* subcorpus accumulator over the documents aggregated into it, and the
\* accumulator behind every report over the documents the report covers;
\* 'documents' is their number.
C8_SumOfDocuments ==
    /\ pc # "aborted"
    /\ corpus_diffs_dict = SumOver(1 .. Len(doc_names))
    /\ corpus_diffs_dict.documents = Len(doc_names)
    /\ subcorpus_diffs_dict = SumOver(sub_members)
    /\ \A j \in DOMAIN log :
          /\ log[j].counts = SumOver(log[j].members)
          /\ log[j].counts.documents = Cardinality(log[j].members)

\* three documents with relaxed pairs, two of them in one subcorpus report
C8_Witness ==
    /\ pc = "done"
    /\ Len(doc_names) = 3
    /\ corpus_diffs_dict.missing_spans_lenient + 2 <= corpus_diffs_dict.missing_spans
    /\ \E j \in DOMAIN log :
          /\ log[j].kind = "subcorpus"
          /\ Cardinality(log[j].members) = 2
          /\ log[j].counts.missing_spans_lenient < log[j].counts.missing_spans

\* C9: a subcorpus report written under the name S covers documents of
\* subcorpus S only.
C9_ReportOfOneSubcorpus ==
    \A j \in DOMAIN log :
        log[j].kind = "subcorpus" =>
            \A i \in log[j].members : doc_names[i] = log[j].title

\* C10: when the corpus report is written, every document that has a
\* subcorpus name is covered by a subcorpus report written before it.
C10_EveryDocumentReported ==
    pc = "done" =>
        \A i \in DOMAIN doc_names :
            doc_names[i] # None =>
                \E j \in 1 .. Len(log) - 1 :
                    log[j].kind = "subcorpus" /\ i \in log[j].members

(***************************************************************************)
(* Properties of the attribute counters (SpecAttributes).                  *)
(***************************************************************************)
\* the locations whose gold and system spans match in full, read off the
\* diff layer
FullKeys ==
    {Key(diff_layer[i]) : i \in {j \in DOMAIN diff_layer :
        diff_layer[j].span_status \in {"unchanged", "modified"}}}

\* the gold and the system annotation of the pair matched at key k: a full
\* match at k, or the relaxed pair of the gold span at k
PairAt(k) ==
    IF k \in FullKeys
    THEN LET sp == diff_layer[CHOOSE i \in DOMAIN diff_layer :
                                  Key(diff_layer[i]) = k]
         IN  <<sp.annotations[1], sp.annotations[Len(sp.annotations)]>>
    ELSE <<map_gold_to_auto[k][1].annotations[1],
           map_gold_to_auto[k][2].annotations[1]>>

MatchedKeys == FullKeys \cup DOMAIN map_gold_to_auto

\* C11: when the call returns, for each attribute total_relevant is the
\* number of matched pairs (full or relaxed) whose gold value is not None,
\* total_retrieved the number of those whose system value is not None, and
\* total_pr_matching the number of those with both values not None and
\* equal; spans left missing or extra are not counted.
C11_CountersOverMatchedPairs ==
    Returned =>
        \A a \in AttrSet :
            /\ diffs_dict.total_relevant_[a] =
                  Cardinality({k \in MatchedKeys : PairAt(k)[1][a] # None})
            /\ diffs_dict.total_retrieved_[a] =
                  Cardinality({k \in MatchedKeys : PairAt(k)[2][a] # None})
            /\ diffs_dict.total_pr_matching_[a] =
                  Cardinality({k \in MatchedKeys :
                      /\ PairAt(k)[1][a] # None
                      /\ PairAt(k)[2][a] # None
                      /\ PairAt(k)[1][a] = PairAt(k)[2][a]})

\* a call with a full match, a relaxed pair whose system value of 'mod' is
\* None, and a gold span left missing that has a value of 'mod'
C11_Witness ==
    /\ Returned
    /\ \E i \in DOMAIN diff_layer : diff_layer[i].span_status = "modified"
    /\ \E k \in DOMAIN map_gold_to_auto :
          PairAt(k)[1]["mod"] # None /\ PairAt(k)[2]["mod"] = None
    /\ \E i \in DOMAIN diff_layer :
          /\ diff_layer[i].span_status = "missing"
          /\ Key(diff_layer[i]) \notin DOMAIN map_gold_to_auto
          /\ Key(diff_layer[i]) \in DOMAIN map_gold_to_auto_score
          /\ diff_layer[i].annotations[1]["mod"] # None

(***************************************************************************)
(* Properties of the Brat offsets (SpecOffsets).                           *)
(***************************************************************************)
\* C12: every timex written to the .ann file and read back is imported at
\* the offsets it had in the text, whether it contains a newline or not.
C12_OffsetsRoundTrip ==
    opc \in {"imported", "failed"} =>
        /\ opc = "imported"
        /\ corrected_locs = <<timex>>

(***************************************************************************)
(* Properties of import_brat_annotations (SpecBratAnnotations).            *)
(***************************************************************************)
\* the identifiers of the entity records
KnownIds == {entity_annotations[i].id : i \in DOMAIN entity_annotations}

\* entity i is the one a line for the identifier is merged onto
IsTarget(i, id) ==
    /\ i \in DOMAIN entity_annotations
    /\ entity_annotations[i].id = id
    /\ \A j \in 1 .. i - 1 : entity_annotations[j].id # id

\* a step that merges the next attribute annotation
AttributeStep == apc = "attributes" /\ ai' = ai + 1

\* a step that merges the next notes annotation
NotesStep == apc = "notes" /\ ni' = ni + 1

\* C13: merging an attribute annotation (name, value) onto its entity sets
\* the attribute where the entity lacks the name, changes nothing where it
\* has the name with that value, and fails where it has the name with
\* another value; no attribute an entity has changes its value.
C13_AttributeMerge ==
    [][AttributeStep =>
        LET a == attr_annotations[ai + 1]
        IN  /\ \A i \in DOMAIN entity_annotations :
                  LET old == entity_annotations[i].attribs
                      new == entity_annotations'[i].attribs
                  IN  /\ \A k \in DOMAIN old : k \in DOMAIN new /\ new[k] = old[k]
                      /\ IsTarget(i, a.entity) =>
                            IF a.a_name \notin DOMAIN old
                            THEN /\ apc' = "attributes"
                                 /\ DOMAIN new = DOMAIN old \cup {a.a_name}
                                 /\ new[a.a_name] = a.a_value
                            ELSE IF old[a.a_name] = a.a_value
                            THEN apc' = "attributes" /\ new = old
                            ELSE apc' = "failed" /\ new = old
                      /\ ~IsTarget(i, a.entity) => new = old
            /\ Len(entity_annotations') = Len(entity_annotations)
      ]_vars

\* an entity got its type, got it again with the same value, and the merge
\* failed on another value
C13_Witness ==
    /\ apc = "failed"
    /\ ai = 3
    /\ attr_annotations[1] = attr_annotations[2]
    /\ attr_annotations[1].entity \in KnownIds
    /\ attr_annotations[3].entity = attr_annotations[1].entity
    /\ attr_annotations[3].a_value # attr_annotations[1].a_value

\* C15: merging an attribute or a notes annotation whose identifier no
\* entity record has prints a message, leaves every entity record as it is
\* and goes on with the merge.
C15_DanglingLineSkipped ==
    [][/\ (AttributeStep /\ attr_annotations[ai + 1].entity \notin KnownIds) =>
            /\ entity_annotations' = entity_annotations
            /\ Len(printed') = Len(printed) + 1
            /\ apc' = "attributes"
       /\ (NotesStep /\ notes_annotations[ni + 1].entity \notin KnownIds) =>
            /\ entity_annotations' = entity_annotations
            /\ Len(printed') = Len(printed) + 1
            /\ apc' = "notes"
      ]_vars

\* an attribute was merged onto an entity after an attribute without
\* entity was reported, and a note without entity was reported after it
C15_Witness ==
    /\ apc = "returned"
    /\ Len(attr_annotations) = 2 /\ Len(notes_annotations) = 1
    /\ attr_annotations[1].entity \notin KnownIds
    /\ attr_annotations[2].entity \in KnownIds
    /\ notes_annotations[1].entity \notin KnownIds
    /\ Len(printed) = 2
    /\ \E i \in DOMAIN entity_annotations :
          "type" \in DOMAIN entity_annotations[i].attribs

\* a step that reads a line
ReadStep == apc = "read" /\ lines_read' = lines_read + 1

\* the records collected from the file
Collected ==
    <<entity_annotations, attr_annotations, notes_annotations, rel_annotations>>

\* C16 as claimed: a line that is not parsed as an entity, attribute, notes
\* or relation record is reported and skipped; the import goes on and the
\* collected records stay as they are.
C16_UnparsedLineSkipped ==
    [][(ReadStep /\ ~line'.parses) =>
            /\ apc' = "read"
            /\ Len(printed') = Len(printed) + 1
            /\ Collected' = Collected
      ]_vars

\* C16 amended: a line that matches none of the four line-prefix patterns
\* is reported and skipped, the import goes on and the collected records
\* stay as they are; a line that matches a line-prefix pattern and not the
\* record pattern of its kind aborts the import.
C16_UnmatchedLineSkipped ==
    [][/\ (ReadStep /\ line'.prefix = "") =>
            /\ apc' = "read"
            /\ Len(printed') = Len(printed) + 1
            /\ Collected' = Collected
       /\ (ReadStep /\ line'.prefix # "" /\ ~line'.parses) =>
            /\ apc' = "failed"
            /\ printed' = printed
            /\ Collected' = Collected
      ]_vars

\* an entity line read and collected after a line without known prefix was
\* reported
C16_Witness ==
    /\ apc = "read"
    /\ printed = <<"Cannot parse annotation">>
    /\ line.prefix = "T" /\ line.parses
    /\ Len(entity_annotations) = 1


(***************************************************************************)
(* Properties of the relations of a Brat document (SpecBratRelations).     *)
(***************************************************************************)
\* the relation record the running loop handles next, where it handles one
Handled ==
    IF ri < Len(rel_annotations) THEN rel_annotations[ri + 1]
    ELSE [arg1 |-> "", rel_type |-> "", arg2 |-> "", rel_id |-> 0]

\* the running loop adds an annotation for relations of this type
LoopTakes(rel_type) ==
    \/ fpc = "tlinks" /\ rel_type \in TlinkTypes
    \/ fpc = "arguments" /\ rel_type = "has_Argument"

Dangling(rel) ==
    \/ rel.arg1 \notin DOMAIN entity_id_to_loc_map
    \/ rel.arg2 \notin DOMAIN entity_id_to_loc_map

RelationStep == (AddTlink \/ AddArgument) /\ LoopTakes(Handled.rel_type)

\* C14: a relation whose Arg1 or Arg2 names no known entity is skipped: no
\* annotation is added for it and the loop goes on with the next relation.
C14_DanglingRelationSkipped ==
    [][(RelationStep /\ Dangling(Handled)) =>
          /\ fpc' = fpc
          /\ ri' = ri + 1
          /\ relations_layer' = relations_layer
          /\ arguments_layer' = arguments_layer]_vars

\* the declared counterpart of a relation type
Counterpart(rel_type) ==
    CASE rel_type = "BEFORE" -> "AFTER"
      [] rel_type = "AFTER" -> "BEFORE"
      [] rel_type = "INCLUDES" -> "IS_INCLUDED"
      [] rel_type = "IS_INCLUDED" -> "INCLUDES"
      [] rel_type = "has_Argument" -> "is_Argument_of"
      [] OTHER -> rel_type

\* the locations of the two sides of an added relation annotation
OutArg1(ann) == SubSeq(ann.spans, 1, ann.b_index)
OutArg2(ann) == SubSeq(ann.spans, ann.b_index + 1, Len(ann.spans))

AddedRelations ==
    {relations_layer[i] : i \in DOMAIN relations_layer}
        \cup {arguments_layer[i] : i \in DOMAIN arguments_layer}

\* C17: every added relation has Arg1.start <= Arg2.start, and where the
\* input had Arg1.start > Arg2.start the arguments are swapped and the type
\* is the counterpart of the input type.
C17_RelationsOrdered ==
    \A ann \in AddedRelations :
        LET rel == rel_annotations[ann.brat_id]
            in1 == entity_id_to_loc_map[rel.arg1]
            in2 == entity_id_to_loc_map[rel.arg2]
        IN  /\ OutArg1(ann)[1][1] <= OutArg2(ann)[1][1]
            /\ in1[1][1] > in2[1][1] =>
                  /\ OutArg1(ann) = in2
                  /\ OutArg2(ann) = in1
                  /\ ann.rel_type = Counterpart(rel.rel_type)

C17_Witness ==
    /\ fpc = "done"
    /\ \E ann \in AddedRelations :
          /\ rel_annotations[ann.brat_id].rel_type = "BEFORE"
          /\ ann.rel_type = "AFTER"
    /\ \E ann \in AddedRelations :
          /\ rel_annotations[ann.brat_id].rel_type = "has_Argument"
          /\ ann.rel_type = "is_Argument_of"


(***************************************************************************)
(* Properties of the tag attributes (SpecTags).                            *)
(***************************************************************************)
\* the key/value pairs of the tag
TagPairs == {tag_attrs[i] : i \in DOMAIN tag_attrs}

\* some key stands twice among the pairs, with different values
KeyConflict(pairs) ==
    \E p1 \in pairs : \E p2 \in pairs : p1[1] = p2[1] /\ p1[2] # p2[2]

\* the returned map, as pairs
MapPairs == {<<k, tag_attribs[k]>> : k \in DOMAIN tag_attribs}

\* C18: parse_tag_attributes fails exactly when the tag has an odd number of
\* quotation marks or some key stands twice with different values;
\* otherwise the map holds every key/value pair of the tag, a pair that is
\* repeated being held once.
C18_TagAttributes ==
    /\ tpc = "failed" =>
          \/ QuoteCount(tag_str, quote) % 2 = 1
          \/ KeyConflict(TagPairs)
    /\ tpc = "returned" =>
          /\ QuoteCount(tag_str, quote) % 2 = 0
          /\ ~KeyConflict(TagPairs)
          /\ MapPairs = TagPairs


(***************************************************************************)
(* Properties of the TIMEX scopes of a t3-olp-ajav file (SpecScopes).      *)
(***************************************************************************)
\* the tags that start a phrase among the first n lines, less the tags that
\* end one
OpenAfter(n) ==
    Cardinality({i \in 1 .. n : t3_lines[i].kind = "open"})
        - Cardinality({i \in 1 .. n : t3_lines[i].kind = "close"})

\* some tag among the lines ends a phrase that none has started
ClosesUnopened == \E n \in 1 .. Len(t3_lines) : OpenAfter(n) < 0

\* some tag that starts a phrase is still open at the end of the file
LeftOpen == ~ClosesUnopened /\ OpenAfter(Len(t3_lines)) > 0

\* C19: improper nesting is fatal: a file with a closing TIMEX tag that has
\* no open scope, or with an opening TIMEX tag that is never closed, is not
\* imported, so every scope of an imported file has its record.
C19_ImproperNestingFatal ==
    spc = "returned" =>
        /\ ~ClosesUnopened
        /\ ~LeftOpen
        /\ Cardinality({i \in DOMAIN t3_lines : t3_lines[i].kind = "open"})
              = Cardinality({i \in DOMAIN raw_timexes :
                                "_start" \in DOMAIN raw_timexes[i]})


(***************************************************************************)
(* Properties of the timexes layer (SpecTextObj).                          *)
(***************************************************************************)
\* the attribute of the record names a record with offsets
NamesExplicit(point) ==
    \E j \in DOMAIN raw_timexes :
        raw_timexes[j].tid = point.ref /\ raw_timexes[j].explicit

InLayer(tid) == \E i \in DOMAIN timexes_layer : timexes_layer[i].tid = tid

RecordOf(ann) ==
    raw_timexes[CHOOSE j \in DOMAIN raw_timexes : raw_timexes[j].tid = ann.tid]

AnnotationsAdded == {timexes_layer[i] : i \in DOMAIN timexes_layer}

\* C21: where the beginPoint or the endPoint of a record names a record with
\* offsets, the annotation of the record holds a copy of the named record
\* as its begin_point or end_point.
C21_ExplicitPointsEmbedded ==
    \A ann \in AnnotationsAdded :
        /\ NamesExplicit(RecordOf(ann).beginPoint) => ann.begin_point.embedded
        /\ NamesExplicit(RecordOf(ann).endPoint) => ann.end_point.embedded

\* the attribute is the bare identifier of a record of the document
BareReference(point) ==
    /\ point.ref # ""
    /\ ~point.embedded
    /\ \E j \in DOMAIN raw_timexes : raw_timexes[j].tid = point.ref

\* the begin_point or end_point inside the copy that the attribute embeds is
\* a bare identifier
BareInside(point) ==
    /\ point.embedded
    /\ \E j \in DOMAIN raw_timexes :
          /\ raw_timexes[j].tid = point.ref
          /\ \/ BareReference(raw_timexes[j].beginPoint)
             \/ BareReference(raw_timexes[j].endPoint)

\* C22: no annotation of the layer has a begin_point, an end_point or a
\* part_of_interval, or an entry inside an embedded record, that is the bare
\* identifier of another record of the document.
C22_FullyResolved ==
    \A ann \in AnnotationsAdded :
        /\ ~BareReference(ann.begin_point)
        /\ ~BareReference(ann.end_point)
        /\ ~BareInside(ann.begin_point)
        /\ ~BareInside(ann.end_point)
        /\ ~BareReference(ann.part_of_interval.begin_point)
        /\ ~BareReference(ann.part_of_interval.end_point)

\* the records that the beginPoint and the endPoint of the records of S name
PointsOf(S) ==
    {j \in DOMAIN raw_timexes :
        \E i \in S : \/ raw_timexes[i].beginPoint.ref = raw_timexes[j].tid
                     \/ raw_timexes[i].endPoint.ref = raw_timexes[j].tid}

RECURSIVE ReachedFrom(_, _)
\* the records reached from the records of S in 1 .. n steps
ReachedFrom(S, n) ==
    IF n = 0 THEN {}
    ELSE PointsOf(S) \cup ReachedFrom(PointsOf(S), n - 1)

\* some record leads back to itself
CircularReference ==
    \E i \in DOMAIN raw_timexes : i \in ReachedFrom({i}, Len(raw_timexes))

\* C23: create_new_text_obj returns no layer for a document whose records
\* have a circular begin/end reference.
C23_CircularReferenceFails ==
    xpc = "done" => ~CircularReference


(***************************************************************************)
(* Properties of the text and the spans of a t3-olp-ajav file (SpecScopes).*)
(***************************************************************************)
\* C24: after every line, cur_text_len is the total length of the strings
\* of cur_tokens, so that the assertion of create_new_text_obj on the length
\* of the text holds.
C24_LengthOfTokens == cur_text_len = JoinedLen(cur_tokens)

C24_Witness ==
    /\ spc = "read"
    /\ li >= 2
    /\ t3_lines[li].kind = "metadata"
    /\ t3_lines[li - 1].kind = "ends"
    /\ Len(cur_tokens) >= 2
    /\ cur_tokens[Len(cur_tokens)] = paragraph_sep
    /\ cur_tokens[Len(cur_tokens) - 1] = <<"w">>
    /\ paragraph_sep # sentence_sep

RECURSIVE Joined(_)
\* the reconstructed text: ''.join(cur_tokens)
Joined(tokens) ==
    IF tokens = <<>> THEN <<>> ELSE Head(tokens) \o Joined(Tail(tokens))

\* the lines that add a record to raw_timexes, in order
RecordLines ==
    SelectSeq([i \in 1 .. Len(t3_lines) |-> i],
              LAMBDA i : t3_lines[i].kind \in {"close", "empty"})

\* the line of the tag that opens the scope which the tag of line c closes
OpeningLine(c) ==
    CHOOSE o \in 1 .. c - 1 :
        /\ t3_lines[o].kind = "open"
        /\ OpenAfter(o) = OpenAfter(c - 1)
        /\ \A k \in o + 1 .. c - 1 :
              t3_lines[k].kind = "open" => OpenAfter(k) # OpenAfter(c - 1)

\* the tokens between the tags of a scope
TokensInside(c) ==
    Cardinality({k \in OpeningLine(c) + 1 .. c - 1 : t3_lines[k].kind = "word"})

\* the records with offsets, as indices of raw_timexes
ScopeRecords ==
    {k \in DOMAIN raw_timexes : "_start" \in DOMAIN raw_timexes[k]}

\* C26: the span of a closed scope with a token inside begins at the first
\* character of its first token and ends after the last character of its
\* last token: it begins and ends with a character of a word and holds as
\* many words as the scope has tokens.
C26_SpanCoversTokens ==
    spc # "failed" =>
        \A k \in ScopeRecords :
            LET text == Joined(cur_tokens)
                start == raw_timexes[k]._start
                end == raw_timexes[k]._end
                inside == TokensInside(RecordLines[k])
            IN  inside >= 1 =>
                    /\ 0 <= start /\ start < end /\ end <= Len(text)
                    /\ text[start + 1] = "w"
                    /\ text[end] = "w"
                    /\ Cardinality({i \in start + 1 .. end : text[i] = "w"})
                          = inside

\* C27: every record with offsets has 0 <= _start <= _end <= the length of
\* the reconstructed text.
C27_OffsetsOrdered ==
    spc # "failed" =>
        \A k \in ScopeRecords :
            /\ 0 <= raw_timexes[k]._start
            /\ raw_timexes[k]._start <= raw_timexes[k]._end
            /\ raw_timexes[k]._end <= cur_text_len

(***************************************************************************)
(* Properties of the trimmed spans (SpecTrim).                             *)
(***************************************************************************)
\* C25: the trimming loops end inside the text; the trimmed span lies
\* within the parsed one, is not inverted, does not begin with whitespace
\* or a left guillemet and does not end with whitespace, a mark ? , ! or a
\* right guillemet.
C25_TrimOnlyShrinks ==
    /\ kpc # "failed"
    /\ kpc = "done" =>
          /\ parsed[1] <= t_start
          /\ t_end <= parsed[2]
          /\ t_start <= t_end
          /\ t_start < t_end =>
                /\ ~LeadingJunk(clean_text[t_start + 1])
                /\ ~TrailingJunk(clean_text[t_end])

(***************************************************************************)
(* Properties of locations_overlap (SpecOverlap).                          *)
(***************************************************************************)
\* the positions of the half-open range
Positions(loc) == loc[1] .. loc[2] - 1

\* C28: locations_overlap returns true exactly when the two half-open
\* ranges share a position.
C28_OverlapIffShared ==
    vpc = "returned" =>
        (overlap <=> Positions(timex_loc) \cap Positions(candidate_loc) # {})

(***************************************************************************)
(* Properties of the order of the arguments (SpecBratRelations).           *)
(***************************************************************************)
\* the annotation has the arguments of the relation in input order and the
\* type of the relation
InInputOrder(ann) ==
    LET rel == rel_annotations[ann.brat_id]
    IN  /\ OutArg1(ann) = entity_id_to_loc_map[rel.arg1]
        /\ OutArg2(ann) = entity_id_to_loc_map[rel.arg2]
        /\ ann.rel_type = rel.rel_type

\* the start of the first location of an argument of the relation
StartOf(id) == entity_id_to_loc_map[id][1][1]

\* the end of the first location of an argument of the relation
EndOf(id) == entity_id_to_loc_map[id][1][2]

\* C29: a relation whose Arg1 starts no later than its Arg2 is added with
\* its arguments in input order and its type unchanged.
C29_KeptUnlessStartsLater ==
    \A ann \in AddedRelations :
        LET rel == rel_annotations[ann.brat_id]
        IN  StartOf(rel.arg1) <= StartOf(rel.arg2) => InInputOrder(ann)

\* C29, amended: a relation is added with its arguments in input order and
\* its type unchanged exactly when Arg1 does not start later than Arg2 and,
\* where both start at the same offset, does not end later than Arg2.
C29_KeptUnlessLaterLocation ==
    \A ann \in AddedRelations :
        LET rel == rel_annotations[ann.brat_id]
        IN  InInputOrder(ann) <=>
                \/ StartOf(rel.arg1) < StartOf(rel.arg2)
                \/ /\ StartOf(rel.arg1) = StartOf(rel.arg2)
                   /\ EndOf(rel.arg1) <= EndOf(rel.arg2)

C29_Witness ==
    /\ fpc = "done"
    /\ \E ann \in AddedRelations :
          LET rel == rel_annotations[ann.brat_id]
          IN  /\ StartOf(rel.arg1) = StartOf(rel.arg2)
              /\ EndOf(rel.arg1) > EndOf(rel.arg2)
              /\ rel.rel_type = "BEFORE"
              /\ ann.rel_type = "AFTER"
    /\ \E ann \in AddedRelations :
          LET rel == rel_annotations[ann.brat_id]
          IN  /\ StartOf(rel.arg1) = StartOf(rel.arg2)
              /\ EndOf(rel.arg1) < EndOf(rel.arg2)
              /\ InInputOrder(ann)

(***************************************************************************)
(* C30: the attribute counters bound one another.                          *)
(***************************************************************************)
\* the accumulators of the driver: the corpus, the running subcorpus and
\* the ones the reports of the log were computed from
Accumulators ==
    {corpus_diffs_dict, subcorpus_diffs_dict}
    \cup {log[i].counts : i \in DOMAIN log}

AtMostOne(x) == x[1] <= x[2]

\* C30: after accumulating any sequence of documents, for every evaluated
\* attribute total_pr_matching_ is at most total_relevant_ and at most
\* total_retrieved_, and matching_ is at most total_; so no recall,
\* precision or accuracy of an attribute, computed or shown in a report,
\* exceeds 1.
C30_AttributeCountersBounded ==
    /\ \A d \in Accumulators : \A a \in AttrSet :
          /\ d.total_pr_matching_[a] <= d.total_relevant_[a]
          /\ d.total_pr_matching_[a] <= d.total_retrieved_[a]
          /\ d.matching_[a] <= d.total_[a]
          /\ AtMostOne(AttrMetrics(d, a).rec)
          /\ AtMostOne(AttrMetrics(d, a).prec)
          /\ AtMostOne(AttrAccuracy(d, a))
    /\ \A i \in DOMAIN log : \A a \in AttrSet :
          /\ log[i].results.attrs[a][1] <= 1000
          /\ log[i].results.attrs[a][2] <= 1000

\* a corpus of several documents was reported in which, for one attribute,
\* some but not all of the matched pairs agree, and for another only the
\* system annotations carry a value
C30_Witness ==
    /\ pc = "done"
    /\ Len(doc_names) >= 2
    /\ \E a \in AttrSet :
          /\ 0 < corpus_diffs_dict.total_pr_matching_[a]
          /\ corpus_diffs_dict.total_pr_matching_[a]
                < corpus_diffs_dict.total_relevant_[a]
          /\ corpus_diffs_dict.total_pr_matching_[a]
                < corpus_diffs_dict.total_retrieved_[a]
          /\ 0 < corpus_diffs_dict.matching_[a]
          /\ corpus_diffs_dict.matching_[a] < corpus_diffs_dict.total_[a]
    /\ \E a \in AttrSet :
          /\ corpus_diffs_dict.total_relevant_[a] = 0
          /\ corpus_diffs_dict.total_retrieved_[a] > 0

=============================================================================
